---- MODULE Spec2Model ----
(***************************************************************************)
(* Webhook-triggered dispatch of the agent runner: the HTTP handler of     *)
(* POST /webhooks/linear, the route table and its matcher, the condition   *)
(* evaluator, the prompt renderer and the detached background unit.        *)
(*                                                                         *)
(* Text that the code splits, scans or concatenates is a sequence of       *)
(* symbols.  A symbol is one of the characters the code looks for          *)
(* (".", "*", "{", "}") or a run of other characters written as one word   *)
(* ("Issue", "create", "New: ").  Two texts are equal iff their symbol     *)
(* sequences are equal.                                                    *)
(*                                                                         *)
(* A JSON / Python value is a record [t, v]: t is the type tag and v the   *)
(* content (None has v = <<>>).                                            *)
(***************************************************************************)
EXTENDS Integers, Sequences, FiniteSets, TLC

\* ------------------------------------------------------------------ values

None == [t |-> "none", v |-> <<>>]
Str(s) == [t |-> "str", v |-> s]
Num(n) == [t |-> "int", v |-> n]
Dict(f) == [t |-> "dict", v |-> f]

\* Python truthiness of a value (bool(x)).
Truthy(x) ==
    CASE x.t = "none" -> FALSE
      [] x.t = "str" -> x.v # <<>>
      [] x.t = "int" -> x.v # 0
      [] x.t = "dict" -> DOMAIN x.v # {}
      [] OTHER -> TRUE

\* x == y on values: values of different types are unequal.
PyEq(x, y) == x.t = y.t /\ x.v = y.v

\* dict.get(key): the value, or None when the key is absent.
DictGet(f, key) == IF key \in DOMAIN f THEN f[key] ELSE None

\* str.split("."): the segments between the dots ("" gives one empty segment).
RECURSIVE Split(_)
Split(s) ==
    IF s = <<>> THEN << <<>> >>
    ELSE LET rest == Split(Tail(s)) IN
         IF Head(s) = "." THEN << <<>> >> \o rest
         ELSE << <<Head(s)>> \o Head(rest) >> \o Tail(rest)

\* "*" in s
HasStar(s) == \E i \in DOMAIN s : s[i] = "*"

Min(a, b) == IF a <= b THEN a ELSE b

\* ------------------------------------------------------- envelope (models.py)

LinearAction == {"create", "update", "remove"}

\* The members of the enum.
LinearEventType ==
    {"Issue", "Comment", "Project", "ProjectUpdate", "Label", "Cycle", "Reaction",
     "IssueAttachment", "Document", "Initiative", "Customer", "CustomerRequest",
     "User", "IssueSla", "OAuthAppRevoked"}

NoPayload == [kind |-> "none"]

\* f"{self.type.value}.{self.action.value}"
get_event_key(payload) == <<payload.type, ".", payload.action>>

get_issue_title(payload) ==
    IF payload.type = "Issue" THEN DictGet(payload.data, <<"title">>) ELSE None

get_issue_description(payload) ==
    IF payload.type = "Issue" THEN DictGet(payload.data, <<"description">>) ELSE None

\* ------------------------------------------------ RouteCondition (models.py)

\* _get_field_value_from_dict: walk the parts of the path; a value that is
\* not a dict ends the walk with None.  (Walk_StopsAtLeaf is a mutation: it
\* ends the walk with the value it has reached.)
RECURSIVE Walk_StopsAtLeaf(_, _)
Walk_StopsAtLeaf(value, parts) ==
    IF parts = <<>> THEN value
    ELSE IF value.t = "dict"
         THEN Walk_StopsAtLeaf(DictGet(value.v, Head(parts)), Tail(parts))
    ELSE value

RECURSIVE Walk(_, _)
Walk(value, parts) ==
    IF parts = <<>> THEN value
    ELSE IF value.t = "dict" THEN Walk(DictGet(value.v, Head(parts)), Tail(parts))
    ELSE None

_get_field_value_from_dict(data, field_path) == Walk(Dict(data), Split(field_path))

_get_field_value(payload, field_path) ==
    _get_field_value_from_dict(payload.data, field_path)

\* a in b for two texts: a is a contiguous part of b.
IsSubstring(a, b) ==
    \E i \in 0..(Len(b) - Len(a)) : \A j \in 1..Len(a) : b[i + j] = a[j]

\* str(value) of a condition operand.
StrOf(x) ==
    CASE x.t = "str" -> x.v
      [] x.t = "none" -> <<"None">>
      [] x.t = "int" -> <<ToString(x.v)>>
      [] OTHER -> <<"repr(", x.t, ")">>

\* Mutation: "changed" compares with updatedFrom even when there is none.
evaluate_ChangedUnguarded(cond, payload) ==
    LET field_value == _get_field_value(payload, cond.field) IN
    CASE cond.operator = "equals" -> PyEq(field_value, cond.value)
      [] cond.operator = "not_equals" -> ~PyEq(field_value, cond.value)
      [] cond.operator = "contains" ->
            IF field_value.t = "str" THEN IsSubstring(StrOf(cond.value), field_value.v)
            ELSE IF field_value.t = "list"
                 THEN \E i \in DOMAIN field_value.v : PyEq(field_value.v[i], cond.value)
            ELSE FALSE
      [] cond.operator = "in" ->
            IF cond.value.t = "list"
            THEN \E i \in DOMAIN cond.value.v : PyEq(cond.value.v[i], field_value)
            ELSE FALSE
      [] cond.operator = "changed" ->
            ~PyEq(_get_field_value_from_dict(payload.updatedFrom.v, cond.field),
                  field_value)
      [] OTHER -> FALSE

\* Mutation: an operator that is not known lets the condition pass.
evaluate_FailOpen(cond, payload) ==
    LET field_value == _get_field_value(payload, cond.field) IN
    CASE cond.operator = "equals" -> PyEq(field_value, cond.value)
      [] cond.operator = "not_equals" -> ~PyEq(field_value, cond.value)
      [] cond.operator = "contains" ->
            IF field_value.t = "str" THEN IsSubstring(StrOf(cond.value), field_value.v)
            ELSE IF field_value.t = "list"
                 THEN \E i \in DOMAIN field_value.v : PyEq(field_value.v[i], cond.value)
            ELSE FALSE
      [] cond.operator = "in" ->
            IF cond.value.t = "list"
            THEN \E i \in DOMAIN cond.value.v : PyEq(cond.value.v[i], field_value)
            ELSE FALSE
      [] cond.operator = "changed" ->
            IF ~Truthy(payload.updatedFrom) THEN FALSE
            ELSE ~PyEq(_get_field_value_from_dict(payload.updatedFrom.v, cond.field),
                       field_value)
      [] OTHER -> TRUE

evaluate(cond, payload) ==
    LET field_value == _get_field_value(payload, cond.field) IN
    CASE cond.operator = "equals" -> PyEq(field_value, cond.value)
      [] cond.operator = "not_equals" -> ~PyEq(field_value, cond.value)
      [] cond.operator = "contains" ->
            IF field_value.t = "str" THEN IsSubstring(StrOf(cond.value), field_value.v)
            ELSE IF field_value.t = "list"
                 THEN \E i \in DOMAIN field_value.v : PyEq(field_value.v[i], cond.value)
            ELSE FALSE
      [] cond.operator = "in" ->
            IF cond.value.t = "list"
            THEN \E i \in DOMAIN cond.value.v : PyEq(cond.value.v[i], field_value)
            ELSE FALSE
      [] cond.operator = "changed" ->
            IF ~Truthy(payload.updatedFrom) THEN FALSE
            ELSE ~PyEq(_get_field_value_from_dict(payload.updatedFrom.v, cond.field),
                       field_value)
      [] OTHER -> FALSE

\* ---------------------------------------------- WebhookRouteRule (models.py)

_matches_event_pattern_NoLengthCheck(event_pattern, event_key) ==
    IF event_pattern = <<"*">> THEN TRUE
    ELSE IF HasStar(event_pattern) THEN
        LET pattern_parts == Split(event_pattern)
            event_parts == Split(event_key)
        IN \A i \in 1..Min(Len(pattern_parts), Len(event_parts)) :
               pattern_parts[i] = <<"*">> \/ pattern_parts[i] = event_parts[i]
    ELSE event_pattern = event_key

_matches_event_pattern(event_pattern, event_key) ==
    IF event_pattern = <<"*">> THEN TRUE
    ELSE IF HasStar(event_pattern) THEN
        LET pattern_parts == Split(event_pattern)
            event_parts == Split(event_key)
        IN IF Len(pattern_parts) # Len(event_parts) THEN FALSE
           ELSE \A i \in 1..Len(pattern_parts) :
                    pattern_parts[i] = <<"*">> \/ pattern_parts[i] = event_parts[i]
    ELSE event_pattern = event_key

\* The conditions all(...) evaluates, in order: it stops after the first
\* false one.  None is evaluated when the pattern does not match, when no
\* payload is given or when the rule has no conditions.
RECURSIVE EvaluatedFrom(_, _, _)
EvaluatedFrom(conditions, i, payload) ==
    IF i > Len(conditions) THEN {}
    ELSE IF evaluate(conditions[i], payload)
         THEN {i} \cup EvaluatedFrom(conditions, i + 1, payload)
         ELSE {i}

conditions_evaluated(rule, event_key, payload) ==
    IF ~_matches_event_pattern(rule.event_pattern, event_key) THEN {}
    ELSE IF payload.kind = "payload" /\ rule.conditions # <<>>
         THEN EvaluatedFrom(rule.conditions, 1, payload)
         ELSE {}

matches_PatternOnly(rule, event_key, payload) ==
    _matches_event_pattern(rule.event_pattern, event_key)

matches(rule, event_key, payload) ==
    IF ~_matches_event_pattern(rule.event_pattern, event_key) THEN FALSE
    ELSE IF payload.kind = "payload" /\ rule.conditions # <<>>
         THEN \A i \in DOMAIN rule.conditions : evaluate(rule.conditions[i], payload)
         ELSE TRUE

\* str.format(**context) on a template, read left to right as Python's
\* formatter reads it: "{{" and "}}" are literal braces, "{name}" is replaced
\* by the text of context[name], and the first field that cannot be
\* replaced raises.  The result is [exc, key, text]: exc is "none" or the
\* name of the exception raised, key the missing key of a KeyError.
FirstIndexOf(s, c) ==
    IF \E i \in DOMAIN s : s[i] = c
    THEN CHOOSE i \in DOMAIN s : s[i] = c /\ \A j \in 1..(i - 1) : s[j] # c
    ELSE 0

Raised(exc, key) == [exc |-> exc, key |-> key, text |-> <<>>]

\* One replacement field, the text between "{" and "}".
FormatField(field, context) ==
    LET parts == Split(field)
        name == Head(parts)
    IN IF \E i \in DOMAIN field : field[i] = "{" THEN Raised("ValueError", <<>>)
       ELSE IF name = <<>> \/ name = <<"0">> THEN Raised("IndexError", <<>>)
       ELSE IF name \notin DOMAIN context THEN Raised("KeyError", name)
       ELSE IF Len(parts) > 1 THEN Raised("AttributeError", <<>>)
       ELSE [exc |-> "none", key |-> <<>>, text |-> StrOf(context[name])]

RECURSIVE Format(_, _)
Format(template, context) ==
    IF template = <<>> THEN [exc |-> "none", key |-> <<>>, text |-> <<>>]
    ELSE LET c == Head(template)
             escaped == Len(template) >= 2 /\ template[2] = c
             close == FirstIndexOf(template, "}")
             head == IF c \in {"{", "}"} /\ escaped
                         THEN [exc |-> "none", key |-> <<>>, text |-> <<c>>]
                     ELSE IF c = "}" THEN Raised("ValueError", <<>>)
                     ELSE IF c = "{" /\ close = 0 THEN Raised("ValueError", <<>>)
                     ELSE IF c = "{"
                         THEN FormatField(SubSeq(template, 2, close - 1), context)
                     ELSE [exc |-> "none", key |-> <<>>, text |-> <<c>>]
             used == IF c \in {"{", "}"} /\ escaped THEN 2
                     ELSE IF c = "{" /\ close > 0 THEN close
                     ELSE 1
         IN IF head.exc # "none" THEN head
            ELSE LET rest == Format(SubSeq(template, used + 1, Len(template)), context)
                 IN IF rest.exc # "none" THEN rest
                    ELSE [exc |-> "none", key |-> <<>>, text |-> head.text \o rest.text]

\* x or default
OrElse(x, default) == IF Truthy(x) THEN x ELSE default

get_issue_state(payload) ==
    IF payload.type = "Issue"
    THEN LET state == IF <<"state">> \in DOMAIN payload.data
                      THEN payload.data[<<"state">>] ELSE Dict(<<>>)
         IN IF state.t = "dict" THEN DictGet(state.v, <<"name">>) ELSE None
    ELSE None

get_issue_priority(payload) ==
    IF payload.type = "Issue" THEN DictGet(payload.data, <<"priority">>) ELSE None

render_context(payload) ==
    (<<"action">> :> Str(<<payload.action>>))
    @@ (<<"type">> :> Str(<<payload.type>>))
    @@ (<<"url">> :> payload.url)
    @@ (<<"title">> :> OrElse(get_issue_title(payload), Str(<<>>)))
    @@ (<<"description">> :> OrElse(get_issue_description(payload), Str(<<>>)))
    @@ (<<"state">> :> OrElse(get_issue_state(payload), Str(<<>>)))
    @@ (<<"priority">> :> OrElse(get_issue_priority(payload), Num(0)))
    @@ (<<"actor_name">> :> IF Truthy(payload.actor) THEN payload.actor.v
                            ELSE Str(<<"Unknown">>))
    @@ (<<"data">> :> Dict(payload.data))

\* render_prompt: the formatted template; a KeyError gives the marker and the
\* template as written; any other exception of str.format leaves the method.
render_prompt(rule, payload) ==
    LET r == Format(rule.prompt_template, render_context(payload)) IN
    IF r.exc = "KeyError"
    THEN [exc |-> "none", key |-> <<>>,
          text |-> <<"[Template Error: Missing key ", "'">> \o r.key
                   \o <<"'", "]", "\n\n">> \o rule.prompt_template]
    ELSE r

\* The loop of find_matching_rule from position i on: the index of the first
\* enabled rule that matches, 0 for None.
RECURSIVE FindFrom(_, _, _, _)
FindFrom(rules, i, event_key, payload) ==
    IF i > Len(rules) THEN 0
    ELSE IF rules[i].enabled /\ matches(rules[i], event_key, payload) THEN i
    ELSE FindFrom(rules, i + 1, event_key, payload)

\* Mutations: the last matching rule instead of the first; disabled rules too.
find_matching_rule_Last(rules, event_key, payload) ==
    LET hits == {i \in DOMAIN rules : rules[i].enabled /\ matches(rules[i], event_key, payload)}
    IN IF hits = {} THEN 0 ELSE CHOOSE i \in hits : \A j \in hits : j <= i

find_matching_rule_IgnoresEnabled(rules, event_key, payload) ==
    LET hits == {i \in DOMAIN rules : matches(rules[i], event_key, payload)}
    IN IF hits = {} THEN 0 ELSE CHOOSE i \in hits : \A j \in hits : i <= j

find_matching_rule(rules, event_key, payload) == FindFrom(rules, 1, event_key, payload)

\* The rules on which the loop calls rule.matches, from position i on: the
\* "and" does not call it on a rule that is not enabled, and the loop ends
\* at the first rule that matches.
RECURSIVE TriedFrom(_, _, _, _)
TriedFrom(rules, i, event_key, payload) ==
    IF i > Len(rules) THEN {}
    ELSE IF ~rules[i].enabled THEN TriedFrom(rules, i + 1, event_key, payload)
    ELSE IF matches(rules[i], event_key, payload) THEN {i}
    ELSE {i} \cup TriedFrom(rules, i + 1, event_key, payload)

\* Mutation: rule.matches(...) and rule.enabled.
rules_tried_MatchesFirst(rules, event_key, payload) ==
    LET index == find_matching_rule(rules, event_key, payload)
    IN {i \in DOMAIN rules : index = 0 \/ i <= index}

rules_tried(rules, event_key, payload) == TriedFrom(rules, 1, event_key, payload)

\* ------------------------------------------------- validation (linear.py)

\* hmac.new(secret, body, sha256).hexdigest(): a digest is determined by the
\* key and the message, and digests of different (key, message) differ.
Hmac(secret, body) == [kind |-> "hex", msg |-> body, secret |-> secret]

\* A Linear-Signature header: absent, empty, a hex digest, or text with a
\* character outside ASCII (the server decodes header bytes as latin-1).
NoHeader == [kind |-> "absent", msg |-> <<>>, secret |-> <<>>]
EmptyHeader == [kind |-> "empty", msg |-> <<>>, secret |-> <<>>]
NonAsciiHeader == [kind |-> "nonascii", msg |-> <<>>, secret |-> <<>>]

\* hmac.compare_digest(a, b) on two str: TypeError unless both are ASCII.
compare_digest(a, b) ==
    IF b.kind = "nonascii" THEN "TypeError"
    ELSE IF a = b THEN "equal" ELSE "different"

\* "ok", "invalid" (HTTPException 401) or the exception that leaves it.
validate_linear_signature(body, webhook_secret, linear_signature) ==
    LET expected_signature == Hmac(webhook_secret, body)
        cmp == compare_digest(expected_signature, linear_signature)
    IN IF cmp = "TypeError" THEN "TypeError"
       ELSE IF cmp = "different" THEN "invalid" ELSE "ok"

Abs(n) == IF n < 0 THEN 0 - n ELSE n

\* "ok", "missing", "old" (both HTTPException 400) or "TypeError": the raw
\* JSON value is read, and text cannot be divided by 1000.  Times are in ms.
validate_linear_timestamp(payload_dict, max_age_seconds, now) ==
    LET webhook_timestamp == payload_dict.webhookTimestamp IN
    IF ~Truthy(webhook_timestamp) THEN "missing"
    ELSE IF webhook_timestamp.t = "str" THEN "TypeError"
    ELSE IF Abs(now - webhook_timestamp.v) > max_age_seconds * 1000 THEN "old"
    ELSE "ok"

\* ------------------------------------------------------ decoding (models.py)

\* The decimal text of n is written as the one-symbol text <<n>>; int(text)
\* is what the int field's validation makes of a numeric JSON string.
NumStr(n) == [t |-> "str", v |-> <<n>>]
ParseInt(text) == text[1]

RequiredFields ==
    {"action", "type", "createdAt", "data", "url", "webhookTimestamp",
     "webhookId", "organizationId"}

\* request.json() and LinearWebhookPayload(**payload_dict): TRUE iff both
\* succeed.  A raw body is [wellformed, present, dict]: wellformed says that
\* the bytes are a JSON object, present names the keys it has and dict gives
\* their values.  (Decodes_AnyAction is a mutation: action is any text.)
Decodes_AnyAction(body) ==
    /\ body.wellformed
    /\ RequiredFields \subseteq body.present
    /\ body.dict.type \in LinearEventType
    /\ body.dict.webhookTimestamp.t \in {"int", "str"}

Decodes(body) ==
    /\ body.wellformed
    /\ RequiredFields \subseteq body.present
    /\ body.dict.action \in LinearAction
    /\ body.dict.type \in LinearEventType
    /\ body.dict.webhookTimestamp.t \in {"int", "str"}

LinearWebhookPayload(payload_dict) ==
    [kind |-> "payload",
     action |-> payload_dict.action,
     type |-> payload_dict.type,
     actor |-> payload_dict.actor,
     data |-> payload_dict.data,
     url |-> payload_dict.url,
     webhookTimestamp |-> IF payload_dict.webhookTimestamp.t = "str"
                          THEN ParseInt(payload_dict.webhookTimestamp.v)
                          ELSE payload_dict.webhookTimestamp.v,
     updatedFrom |-> payload_dict.updatedFrom]

\* ------------------------------------------- WebhookHandler (handlers.py)

HTTPException(code, detail) ==
    [code |-> code, status |-> "error", message |-> detail, event_key |-> <<>>]

JSONResponse(status, message, event_key) ==
    [code |-> 200, status |-> status, message |-> message, event_key |-> event_key]

NoPrompt == <<"<no prompt>">>

\* What one call of a handler leaves behind: the response (or, for
\* handle_linear_webhook, the returned dict or the exception), the steps it
\* ran in order up to the one that produced the response ("return" is the
\* return of the accepted dict after the spawn), the background unit it
\* created, if any, and whether the warning that signature validation is
\* skipped was logged.
Outcome(resp, steps, spawned, prompt, event_key) ==
    [resp |-> resp, steps |-> steps, spawned |-> spawned, prompt |-> prompt,
     event_key |-> event_key, warned |-> FALSE]

\* asyncio.create_task(self._run_agent(prompt, event_key, headers)): the unit
\* is scheduled and the handler goes on; the unit runs after the handler
\* has given up the event loop.
handle_linear_webhook_Awaits(rules, payload) ==
    LET event_key == get_event_key(payload)
        i == find_matching_rule(rules, event_key, payload)
    IN IF i = 0
       THEN Outcome(JSONResponse("ignored", <<"No route configured for ">> \o event_key, <<>>),
                    <<"match">>, FALSE, NoPrompt, event_key)
       ELSE LET r == render_prompt(rules[i], payload) IN
            IF r.exc # "none"
            THEN Outcome(HTTPException(500, <<"Internal server error">>),
                         <<"match", "render">>, FALSE, NoPrompt, event_key)
            ELSE Outcome(JSONResponse("accepted", <<"Agent triggered for ">> \o event_key,
                                      event_key),
                         <<"match", "render", "spawn", "budget", "runtask", "return">>,
                         TRUE, r.text, event_key)

handle_linear_webhook(rules, payload) ==
    LET event_key == get_event_key(payload)
        i == find_matching_rule(rules, event_key, payload)
    IN IF i = 0
       THEN Outcome(JSONResponse("ignored", <<"No route configured for ">> \o event_key, <<>>),
                    <<"match">>, FALSE, NoPrompt, event_key)
       ELSE LET r == render_prompt(rules[i], payload) IN
            IF r.exc # "none"
            THEN Outcome(HTTPException(500, <<"Internal server error">>),
                         <<"match", "render">>, FALSE, NoPrompt, event_key)
            ELSE Outcome(JSONResponse("accepted", <<"Agent triggered for ">> \o event_key,
                                      event_key),
                         <<"match", "render", "spawn", "return">>, TRUE, r.text, event_key)

\* ---------------------------------------------- WebhookServer (server.py)

Failed(resp, steps) == Outcome(resp, steps, FALSE, NoPrompt, <<>>)

\* From "Parse the payload" on: decode, timestamp check, handler call.
linear_webhook_FromDecode(settings, rules, req, steps) ==
    IF ~Decodes(req.body)
    THEN Failed(HTTPException(400, <<"Invalid payload: ", "...">>), steps \o <<"decode">>)
    ELSE LET payload == LinearWebhookPayload(req.body.dict)
             ts == validate_linear_timestamp(req.body.dict,
                                             settings.max_timestamp_age_seconds, req.now)
             steps3 == steps \o <<"decode", "timestamp">>
         IN CASE ts = "missing" ->
                    Failed(HTTPException(400, <<"Missing webhookTimestamp in payload">>), steps3)
              [] ts = "old" ->
                    Failed(HTTPException(400, <<"Webhook timestamp too old: ", "...">>), steps3)
              [] ts = "TypeError" ->
                    Failed(HTTPException(500, <<"Internal Server Error">>), steps3)
              [] OTHER ->
                    LET h == handle_linear_webhook(rules, payload)
                    IN [h EXCEPT !.steps = steps3 \o h.steps]

\* The route handler of POST /webhooks/linear, from the request to the
\* response.  An exception that is no HTTPException leaves the handler and
\* the server answers 500.
linear_webhook_DecodeFirst(settings, rules, req) ==
    IF ~Decodes(req.body)
    THEN Failed(HTTPException(400, <<"Invalid payload: ", "...">>), <<"decode">>)
    ELSE linear_webhook_FromDecode(settings, rules, req, <<>>)

\* Mutation: an empty secret is a secret.
linear_webhook_EmptySecretChecked(settings, rules, req) ==
    IF settings.linear_webhook_secret.t # "none"
    THEN IF req.signature.kind \in {"absent", "empty"}
         THEN Failed(HTTPException(401, <<"Missing Linear-Signature header">>),
                     <<"signature">>)
         ELSE LET v == validate_linear_signature(req.body,
                                                 settings.linear_webhook_secret.v,
                                                 req.signature)
              IN CASE v = "invalid" ->
                         Failed(HTTPException(401, <<"Invalid webhook signature">>),
                                <<"signature">>)
                   [] v = "TypeError" ->
                         Failed(HTTPException(500, <<"Internal Server Error">>),
                                <<"signature">>)
                   [] OTHER ->
                         linear_webhook_FromDecode(settings, rules, req, <<"signature">>)
    ELSE [linear_webhook_FromDecode(settings, rules, req, <<>>) EXCEPT !.warned = TRUE]

linear_webhook(settings, rules, req) ==
    IF Truthy(settings.linear_webhook_secret)
    THEN IF req.signature.kind \in {"absent", "empty"}
         THEN Failed(HTTPException(401, <<"Missing Linear-Signature header">>),
                     <<"signature">>)
         ELSE LET v == validate_linear_signature(req.body,
                                                 settings.linear_webhook_secret.v,
                                                 req.signature)
              IN CASE v = "invalid" ->
                         Failed(HTTPException(401, <<"Invalid webhook signature">>),
                                <<"signature">>)
                   [] v = "TypeError" ->
                         Failed(HTTPException(500, <<"Internal Server Error">>),
                                <<"signature">>)
                   [] OTHER ->
                         linear_webhook_FromDecode(settings, rules, req, <<"signature">>)
    ELSE [linear_webhook_FromDecode(settings, rules, req, <<>>) EXCEPT !.warned = TRUE]

\* ------------------------------------------------ background unit
\* (handlers.py _run_agent, runner.py run_once, cost_tracker.py)

\* The attributes an AgentResult has (result.py).
AgentResultAttributes ==
    {"status", "result_text", "structured_output", "session_id", "start_time",
     "end_time", "duration_ms", "total_usage", "total_cost_usd", "num_turns",
     "messages", "tool_calls", "todos", "error", "error_type", "raw_messages",
     "is_success", "duration_seconds"}

\* The record _run_agent logs once run_once has returned a result: the
\* message it formats reads attributes of the result, and reading one the
\* result does not have raises AttributeError inside the try block, which
\* the except clause logs instead.
log_result(status) ==
    LET reads == IF status = "success" THEN {"status", "token_usage", "cost_usd"}
                 ELSE {"status", "error_message"}
    IN IF reads \subseteq AgentResultAttributes
       THEN IF status = "success" THEN "info: Agent completed successfully"
            ELSE "error: Agent failed"
       ELSE "error: Error running agent"

RECURSIVE SumCosts(_)
SumCosts(entries) ==
    IF entries = <<>> THEN 0 ELSE Head(entries).cost + SumCosts(Tail(entries))

\* Mutation: a ledger exactly at the limit still passes.
check_budget_Exclusive(summary, budget_limit_usd) ==
    IF budget_limit_usd.t = "none" THEN TRUE
    ELSE ~(SumCosts(summary) > budget_limit_usd.v)

\* CostTracker.check_budget on the summary the tracker holds.
check_budget(summary, budget_limit_usd) ==
    IF budget_limit_usd.t = "none" THEN TRUE
    ELSE ~(SumCosts(summary) >= budget_limit_usd.v)

\* A background unit: where it stands (pc), the arguments of _run_agent
\* (prompt, event_key), the prompt run_once settled on (task_prompt), the
\* summary its tracker holds, the status of its result, what it logged and
\* the steps it ran.
NoUnit ==
    [pc |-> "none", prompt |-> NoPrompt, event_key |-> <<>>, task_prompt |-> NoPrompt,
     summary |-> <<>>, status |-> "none", logged |-> "none", steps |-> <<>>]

\* The coroutine object create_task schedules.
_run_agent(prompt, event_key) ==
    [NoUnit EXCEPT !.pc = "scheduled", !.prompt = prompt, !.event_key = event_key]

\* ------------------------------------------------------------- the model

\* Bounds of the model.
MaxDeliveries == 2

\* WebhookConfig.max_timestamp_age_seconds, default (settings.py).
DefaultMaxAge == 60

\* time.time() when the timestamp check runs, in ms.
Now == 100 * 1000

Url == <<"https://linear.app/acme/issue/1">>

\* A task prompt set in the settings (Settings.task_prompt).
DefaultTask == <<"Daily task">>

Secret1 == <<"s1">>
Secret2 == <<"s2">>

DataBug == (<<"title">> :> Str(<<"Bug">>))

DataAlice ==
    (<<"title">> :> Str(<<"Bug">>))
    @@ (<<"assignee">> :> Dict((<<"name">> :> Str(<<"Alice">>))))

DataClaude ==
    (<<"title">> :> Str(<<"Bug">>))
    @@ (<<"assignee">> :> Dict((<<"name">> :> Str(<<"Claude">>))))

DataComment == (<<"body">> :> Str(<<"hi">>))

Envelope(type, action, data, updatedFrom, webhookTimestamp) ==
    [wellformed |-> TRUE,
     present |-> RequiredFields,
     dict |-> [action |-> action, type |-> type, actor |-> None, data |-> data,
               url |-> Str(Url), webhookTimestamp |-> webhookTimestamp,
               updatedFrom |-> updatedFrom]]

Fresh == Num(Now - 1000)

IssueCreate == Envelope("Issue", "create", DataBug, None, Fresh)

NotJson == [IssueCreate EXCEPT !.wellformed = FALSE]
NoUrlField == [IssueCreate EXCEPT !.present = RequiredFields \ {"url"}]
BadAction == [IssueCreate EXCEPT !.dict.action = "archive"]
BadType == [IssueCreate EXCEPT !.dict.type = "Team"]

\* webhookTimestamp values around the window, as JSON numbers and as text.
Timestamps ==
    {Num(Now - d) : d \in {59999, 60000, 60001, 0 - 60000, 0 - 60001}}
    \cup {Num(0), NumStr(Now - 1000), NumStr(Now - 60001)}

Bodies ==
    {NotJson, NoUrlField, BadAction, BadType, IssueCreate}
    \cup {Envelope("Issue", "create", DataBug, None, ts) : ts \in Timestamps}
    \cup {Envelope("Issue", "update", DataAlice, Dict((<<"title">> :> Str(<<"Old">>))), Fresh),
          Envelope("Issue", "update", DataClaude, Dict((<<"title">> :> Str(<<"Bug">>))), Fresh),
          Envelope("Issue", "update", DataAlice, None, Fresh),
          Envelope("Comment", "create", DataComment, None, Fresh),
          Envelope("Project", "remove", DataBug, None, Fresh),
          Envelope("Project", "update", DataBug, None, Fresh)}

\* The headers a sender may put on a body: none, an empty one, one outside
\* ASCII, the digest under the right or a wrong key, the digest of another
\* body.
SignatureHeaders(body) ==
    {NoHeader, EmptyHeader, NonAsciiHeader, Hmac(Secret1, body), Hmac(Secret2, body),
     Hmac(Secret1, IF body = IssueCreate THEN NotJson ELSE IssueCreate)}

\* The requests of the model: every header on a body that decodes and on one
\* that does not, and every other body signed with the first secret.
Requests ==
    {[body |-> body, signature |-> signature, now |-> Now] :
        body \in {IssueCreate, NotJson}, signature \in SignatureHeaders(IssueCreate)
                                                      \cup SignatureHeaders(NotJson)}
    \cup {[body |-> body, signature |-> Hmac(Secret1, body), now |-> Now] : body \in Bodies}

Rule(event_pattern, conditions, prompt_template, enabled) ==
    [event_pattern |-> event_pattern, conditions |-> conditions,
     prompt_template |-> prompt_template, enabled |-> enabled]

Cond(field, operator, value) == [field |-> field, operator |-> operator, value |-> value]

\* A routes file: a disabled catch-all, scenario A, scenario D, a rule on a
\* changed title whose template names a key the context lacks, a rule
\* whose template has a lone closing brace, and a rule whose template is the
\* description alone (empty for an event that is not about an issue).
MainRoutes ==
    << Rule(<<"*">>, <<>>, <<"never">>, FALSE),
       Rule(<<"Issue", ".", "create">>, <<>>, <<"New: ", "{", "title", "}">>, TRUE),
       Rule(<<"Issue", ".", "*">>,
            <<Cond(<<"assignee", ".", "name">>, "equals", Str(<<"Claude">>))>>,
            <<"Work on ", "{", "title", "}">>, TRUE),
       Rule(<<"Issue", ".", "update">>,
            <<Cond(<<"title">>, "changed", None)>>,
            <<"Changed by ", "{", "who", "}">>, TRUE),
       Rule(<<"Issue", ".", "update">>, <<>>, <<"Updated ", "{", "url", "}">>, TRUE),
       Rule(<<"Comment", ".", "*">>, <<>>, <<"Review ", "}", " now">>, TRUE),
       Rule(<<"Project", ".", "update">>, <<>>, <<"{", "description", "}">>, TRUE) >>

\* The cost of one run and the budget limit, in cents.
RunCosts == {1}
BudgetLimit == 1

VARIABLES
    settings,      \* WebhookConfig and AgentConfig fields the code reads
    route_rules,   \* WebhookHandler.route_rules
    last,          \* the request handled last and what the handler made of it
    deliveries,    \* per delivery: the request, the response sent, the steps run
    units,         \* per delivery: its background unit (NoUnit if none)
    cost_file,     \* the entries of costs.json
    probe,         \* one call of a matcher function: its arguments and result
    loader,        \* a run of _load_routes_from_file: the file and its progress
    service,       \* a run of AgentRunner.run_service: the loop and the stop requests
    engine         \* a call of AgentEngine.run: the result being built and the messages seen

vars ==
    <<settings, route_rules, last, deliveries, units, cost_file, probe, loader, service,
      engine>>

NoRequest == [body |-> NotJson, signature |-> NoHeader, now |-> Now]

\* A call of _matches_event_pattern ("pattern"), RouteCondition.evaluate
\* ("evaluate"), WebhookRouteRule.matches ("matches"), find_matching_rule
\* ("find") or render_prompt ("render"): the arguments it is given and, once
\* done, what it returned (result for a bool, index for a rule, evaluated
\* for the conditions, or for find the rules, that were evaluated on the
\* way, rendered for a prompt or the exception that left the method).
Call(kind, pattern, key, cond, rules, payload) ==
    [kind |-> kind, done |-> FALSE, pattern |-> pattern, key |-> key, cond |-> cond,
     rules |-> rules, payload |-> payload, result |-> FALSE, index |-> 0,
     evaluated |-> {}, rendered |-> [exc |-> "none", key |-> <<>>, text |-> <<>>]]

NoCall == Call("none", <<>>, <<>>, Cond(<<>>, "equals", None), <<>>, NoPayload)

\* A routes file as _load_routes_from_file finds it: not configured
\* ("none"), configured but missing, not parseable as YAML, parsed to
\* something that is no list, or parsed to a list of records.
RoutesFile(kind, records) == [kind |-> kind, records |-> records]

\* A record of the file: the keys it has and their values.
Record(present, rule) ==
    [present |-> present, event_pattern |-> rule.event_pattern,
     conditions |-> rule.conditions, prompt_template |-> rule.prompt_template,
     enabled |-> rule.enabled]

\* WebhookRouteRule(**rule): event_pattern and prompt_template are required,
\* conditions defaults to the empty list and enabled to True.
Validates(record) == {"event_pattern", "prompt_template"} \subseteq record.present

WebhookRouteRule(record) ==
    Rule(record.event_pattern,
         IF "conditions" \in record.present THEN record.conditions ELSE <<>>,
         record.prompt_template,
         IF "enabled" \in record.present THEN record.enabled ELSE TRUE)

\* A run of _load_routes_from_file on a handler: the table the handler was
\* constructed with (given), the file, the list built so far (the local
\* value of the list comprehension), where the run stands (pc) and how it
\* ended (outcome); once find_matching_rule was called on the handler (read),
\* key, seen and found are the event key of the latest call, the table it
\* read and what it returned.
Load(pc, given, file) ==
    [pc |-> pc, given |-> given, file |-> file, built |-> <<>>, outcome |-> "none",
     read |-> FALSE, key |-> <<>>, seen |-> <<>>, found |-> 0]

NoLoad == Load("none", <<>>, RoutesFile("none", <<>>))

\* AgentRunner.run_service: where the coroutine stands (pc: "idle" before
\* the call, "run" while run_once is awaited, "wait" in wait_for,
\* "returned"), the runner's _running and _shutdown_event, run_count, how
\* each run_once ended (results), the value of run_count when stop was
\* first invoked during the service (stop_at, -1 before), whether stop came
\* while a run was awaited (stop_in_run), and how the loop was left (left).
Service(pc) ==
    [pc |-> pc, _running |-> FALSE, _shutdown_event |-> FALSE, run_count |-> 0,
     results |-> <<>>, stop_at |-> 0 - 1, stop_in_run |-> FALSE, left |-> "none"]

NoService == Service("none")

\* AgentStatus (result.py).
AgentStatus ==
    {"pending", "running", "success", "error", "timeout", "budget_exceeded",
     "max_turns_reached", "cancelled"}

\* A call of AgentEngine.run: where it stands (pc: "idle" before the call,
\* "stream" inside the async for, "returned", "raised" when an exception
\* left run), result.status and result.error_type, and the messages
\* processed so far (seen).
Engine(pc) == [pc |-> pc, status |-> "pending", error_type |-> "none", seen |-> <<>>]

NoEngine == Engine("none")

Init ==
    /\ settings \in [linear_webhook_secret : {None, Str(<<>>), Str(Secret1)},
                     max_timestamp_age_seconds : {DefaultMaxAge},
                     max_budget_usd : {None, Num(BudgetLimit)},
                     task_prompt : {None, Str(DefaultTask)}]
    /\ route_rules = MainRoutes
    /\ last = [handled |-> FALSE, req |-> NoRequest,
               outcome |-> Failed(HTTPException(0, <<>>), <<>>)]
    /\ deliveries = <<>>
    /\ units = <<>>
    /\ cost_file = <<>>
    /\ probe = NoCall
    /\ loader = NoLoad
    /\ service = NoService
    /\ engine = NoEngine

\* Mutation: a request that was delivered before is answered without a unit.
Deliver_OncePerRequest ==
    /\ Len(deliveries) < MaxDeliveries
    /\ \E req \in Requests :
          LET o == IF \E d \in DOMAIN deliveries : deliveries[d].req = req
                   THEN Failed(JSONResponse("ignored", <<"Duplicate delivery">>, <<>>),
                               <<"duplicate">>)
                   ELSE linear_webhook(settings, route_rules, req)
          IN /\ last' = [handled |-> TRUE, req |-> req, outcome |-> o]
             /\ deliveries' = Append(deliveries, [req |-> req, resp |-> o.resp,
                                                 steps |-> o.steps])
             /\ units' = Append(units, IF o.spawned THEN _run_agent(o.prompt, o.event_key)
                                       ELSE NoUnit)
    /\ UNCHANGED <<settings, route_rules, cost_file, probe, loader, service, engine>>

\* One delivery: the request arrives and linear_webhook runs to its response
\* (after the body is read the handler has no suspension point).
Deliver ==
    /\ Len(deliveries) < MaxDeliveries
    /\ \E req \in Requests :
          LET o == linear_webhook(settings, route_rules, req)
          IN /\ last' = [handled |-> TRUE, req |-> req, outcome |-> o]
             /\ deliveries' = Append(deliveries, [req |-> req, resp |-> o.resp,
                                                 steps |-> o.steps])
             /\ units' = Append(units, IF o.spawned THEN _run_agent(o.prompt, o.event_key)
                                       ELSE NoUnit)
    /\ UNCHANGED <<settings, route_rules, cost_file, probe, loader, service, engine>>

\* Mutation: the task is dropped before it runs.
UnitStart_Dropped(d) ==
    /\ units[d].pc = "scheduled"
    /\ units' = [units EXCEPT ![d] = NoUnit]
    /\ UNCHANGED <<settings, route_rules, last, deliveries, cost_file, probe, loader,
                   service, engine>>

\* The unit's first run on the event loop, up to its first real wait:
\* AgentRunner(settings) loads the cost file, run_once picks the prompt and
\* checks the budget, and engine.run starts.
UnitStart(d) ==
    /\ units[d].pc = "scheduled"
    /\ LET u == units[d]
           summary == cost_file
           task_prompt == IF u.prompt # <<>> THEN Str(u.prompt) ELSE settings.task_prompt
       IN units' = [units EXCEPT ![d] =
            IF ~Truthy(task_prompt)
            THEN [u EXCEPT !.pc = "done", !.summary = summary,
                           !.logged = "error: Error running agent"]
            ELSE IF ~check_budget(summary, settings.max_budget_usd)
            THEN [u EXCEPT !.pc = "done", !.summary = summary,
                           !.task_prompt = task_prompt.v,
                           !.status = "budget_exceeded",
                           !.steps = u.steps \o <<"budget">>,
                           !.logged = log_result("budget_exceeded")]
            ELSE [u EXCEPT !.pc = "running", !.summary = summary,
                           !.task_prompt = task_prompt.v,
                           !.steps = u.steps \o <<"budget", "runtask">>]]
    /\ UNCHANGED <<settings, route_rules, last, deliveries, cost_file, probe, loader,
                   service, engine>>

\* How the await of engine.run ends: it returns a result with status
\* success or error (an exception of the query is caught inside run and
\* becomes an error result), or it raises (the import of the SDK at the top
\* of run is outside its try block).
EngineOutcomes == {"success", "error", "raised"}

\* Mutation: a run that did not succeed is put back on the event loop.
UnitFinish_Retries(d) ==
    /\ units[d].pc = "running"
    /\ \E outcome \in EngineOutcomes :
          units' = [units EXCEPT ![d] =
                [@ EXCEPT !.pc = IF outcome = "success" THEN "done" ELSE "scheduled",
                          !.status = IF outcome = "raised" THEN "none" ELSE outcome,
                          !.steps = @ \o <<"log">>,
                          !.logged = "error: Error running agent"]]
    /\ UNCHANGED <<settings, route_rules, last, deliveries, cost_file, probe, loader,
                   service, engine>>

\* engine.run ends.  When it returns a result, track_result adds the entry
\* to the unit's summary and rewrites the cost file from it, and _run_agent
\* logs; when it raises, run_once passes the exception on and the except
\* clause of _run_agent logs it.
UnitFinish(d) ==
    /\ units[d].pc = "running"
    /\ \E outcome \in EngineOutcomes : \E cost \in RunCosts :
          LET u == units[d]
              summary == Append(u.summary, [unit |-> d, cost |-> cost])
          IN IF outcome = "raised"
             THEN /\ units' = [units EXCEPT ![d] =
                        [u EXCEPT !.pc = "done",
                                  !.steps = u.steps \o <<"log">>,
                                  !.logged = "error: Error running agent"]]
                  /\ UNCHANGED cost_file
             ELSE /\ units' = [units EXCEPT ![d] =
                        [u EXCEPT !.pc = "done", !.summary = summary,
                                  !.status = outcome,
                                  !.steps = u.steps \o <<"track", "log">>,
                                  !.logged = log_result(outcome)]]
                  /\ cost_file' = summary
    /\ UNCHANGED <<settings, route_rules, last, deliveries, probe, loader, service, engine>>

Next ==
    \/ Deliver
    \/ \E d \in 1..MaxDeliveries : d <= Len(units) /\ UnitStart(d)
    \/ \E d \in 1..MaxDeliveries : d <= Len(units) /\ UnitFinish(d)

Spec == Init /\ [][Next]_vars

\* The event loop runs every task that is ready: a scheduled unit gets its
\* first turn, and the await of engine.run ends.
Fairness ==
    \A d \in 1..MaxDeliveries :
        /\ WF_vars(d <= Len(units) /\ UnitStart(d))
        /\ WF_vars(d <= Len(units) /\ UnitFinish(d))

SpecFair == Spec /\ Fairness

\* ------------------------------------------- the matcher functions alone

\* Bounds of the calls explored.
MaxLen == 3
MaxConds == 2
MaxRules == 3

\* Every text of at most n symbols over a set of symbols.
Texts(symbols, n) == UNION {[1..k -> symbols] : k \in 0..n}

PatternSymbols == {"Issue", "create", ".", "*"}

List(seq) == [t |-> "list", v |-> seq]

DataNested ==
    (<<"title">> :> Str(<<"Bug">>))
    @@ (<<"labels">> :> List(<<Str(<<"Bug">>), Str(<<"Claude">>)>>))
    @@ (<<"assignee">> :> Dict((<<"name">> :> Str(<<"Claude">>))))
    @@ (<<"state">> :> None)

\* Envelopes: without updatedFrom, with an empty one, with one that holds
\* the field's old value, the field's present value, or another field only.
Payloads ==
    {LinearWebhookPayload(b.dict) : b \in
        {IssueCreate,
         Envelope("Issue", "update", DataAlice, Dict(<<>>), Fresh),
         Envelope("Issue", "update", DataAlice, Dict((<<"title">> :> Str(<<"Old">>))), Fresh),
         Envelope("Issue", "update", DataClaude, Dict((<<"title">> :> Str(<<"Bug">>))), Fresh),
         Envelope("Issue", "update", DataNested,
                  Dict((<<"assignee">> :> Dict((<<"name">> :> Str(<<"Alice">>))))), Fresh),
         Envelope("Issue", "update", DataComment, Dict((<<"title">> :> Str(<<"Old">>))), Fresh),
         Envelope("Comment", "create", DataComment, None, Fresh)}}

Fields ==
    {<<"title">>, <<"assignee", ".", "name">>, <<"title", ".", "name">>, <<"labels">>,
     <<"state">>, <<"missing">>, <<"assignee", ".">>}

Operators == {"equals", "not_equals", "contains", "in", "changed", "matches_regex"}

Operands ==
    {None, Str(<<"Bug">>), Str(<<"Claude">>), List(<<Str(<<"Bug">>), None>>)}

Conditions == {Cond(f, op, v) : f \in Fields, op \in Operators, v \in Operands}

\* The conditions rules are built from.
RuleConditions ==
    {Cond(<<"assignee", ".", "name">>, "equals", Str(<<"Claude">>)),
     Cond(<<"title">>, "changed", None),
     Cond(<<"title">>, "equals", Str(<<"Bug">>)),
     Cond(<<"title">>, "matches_regex", Str(<<"Bug">>))}

RulePatterns ==
    {<<"*">>, <<"Issue", ".", "create">>, <<"Issue", ".", "*">>, <<"*", ".", "update">>}

EventKeys ==
    {<<"Issue", ".", "create">>, <<"Issue", ".", "update">>, <<"Comment", ".", "create">>}

Rules ==
    {Rule(p, c, <<"Do ", "{", "title", "}">>, e) :
        p \in RulePatterns,
        c \in UNION {[1..k -> RuleConditions] : k \in 0..MaxConds},
        e \in BOOLEAN}

\* The rules tables are built from: a general and a specific rule, a rule
\* with a condition, a disabled catch-all, a rule for another event, a rule
\* whose condition has an operator evaluate does not know.
TableRules ==
    {Rule(<<"Issue", ".", "*">>, <<>>, <<"any issue">>, TRUE),
     Rule(<<"Issue", ".", "update">>, <<>>, <<"issue update">>, TRUE),
     Rule(<<"Issue", ".", "update">>,
          <<Cond(<<"assignee", ".", "name">>, "equals", Str(<<"Claude">>))>>,
          <<"for Claude">>, TRUE),
     Rule(<<"*">>, <<>>, <<"disabled">>, FALSE),
     Rule(<<"Comment", ".", "create">>, <<>>, <<"comment">>, TRUE),
     Rule(<<"Issue", ".", "*">>,
          <<Cond(<<"title">>, "matches_regex", Str(<<"Bug">>))>>,
          <<"regex">>, TRUE)}

Tables == UNION {[1..k -> TableRules] : k \in 0..MaxRules}

\* What templates are written with: braces, the name of a context key, a
\* name the context lacks, and plain text.
TemplateSymbols == {"{", "}", "title", "who", "Fix "}

\* One call of a matcher function, on arguments from the sets above.
InitCalls ==
    /\ settings = [linear_webhook_secret |-> None,
                   max_timestamp_age_seconds |-> DefaultMaxAge,
                   max_budget_usd |-> None, task_prompt |-> None]
    /\ route_rules = <<>>
    /\ last = [handled |-> FALSE, req |-> NoRequest,
               outcome |-> Failed(HTTPException(0, <<>>), <<>>)]
    /\ deliveries = <<>>
    /\ units = <<>>
    /\ cost_file = <<>>
    /\ \/ \E p \in Texts(PatternSymbols, MaxLen), k \in Texts(PatternSymbols, MaxLen) :
             probe = Call("pattern", p, k, NoCall.cond, <<>>, NoPayload)
       \/ \E c \in Conditions, pl \in Payloads :
             probe = Call("evaluate", <<>>, <<>>, c, <<>>, pl)
       \/ \E k \in EventKeys, r \in Rules, pl \in Payloads \cup {NoPayload} :
             probe = Call("matches", <<>>, k, NoCall.cond, <<r>>, pl)
       \/ \E t \in Tables, pl \in Payloads :
             probe = Call("find", <<>>, get_event_key(pl), NoCall.cond, t, pl)
       \/ \E t \in Texts(TemplateSymbols, MaxLen), pl \in Payloads :
             probe = Call("render", <<>>, <<>>, NoCall.cond,
                          <<Rule(<<"*">>, <<>>, t, TRUE)>>, pl)
    /\ loader = NoLoad
    /\ service = NoService
    /\ engine = NoEngine

Unprobed ==
    <<settings, route_rules, last, deliveries, units, cost_file, loader, service, engine>>

CallPattern ==
    /\ probe.kind = "pattern" /\ ~probe.done
    /\ probe' = [probe EXCEPT !.done = TRUE,
                              !.result = _matches_event_pattern(probe.pattern, probe.key)]
    /\ UNCHANGED Unprobed

CallEvaluate ==
    /\ probe.kind = "evaluate" /\ ~probe.done
    /\ probe' = [probe EXCEPT !.done = TRUE, !.result = evaluate(probe.cond, probe.payload)]
    /\ UNCHANGED Unprobed

CallMatches ==
    /\ probe.kind = "matches" /\ ~probe.done
    /\ probe' = [probe EXCEPT
                    !.done = TRUE,
                    !.result = matches(probe.rules[1], probe.key, probe.payload),
                    !.evaluated = conditions_evaluated(probe.rules[1], probe.key,
                                                       probe.payload)]
    /\ UNCHANGED Unprobed

CallFind ==
    /\ probe.kind = "find" /\ ~probe.done
    /\ probe' = [probe EXCEPT
                    !.done = TRUE,
                    !.index = find_matching_rule(probe.rules, probe.key, probe.payload),
                    !.evaluated = rules_tried(probe.rules, probe.key, probe.payload)]
    /\ UNCHANGED Unprobed

CallRender ==
    /\ probe.kind = "render" /\ ~probe.done
    /\ probe' = [probe EXCEPT !.done = TRUE,
                              !.rendered = render_prompt(probe.rules[1], probe.payload)]
    /\ UNCHANGED Unprobed

NextCalls == CallPattern \/ CallEvaluate \/ CallMatches \/ CallFind \/ CallRender

SpecCalls == InitCalls /\ [][NextCalls]_vars


\* ------------------------------------------- the routes file being loaded

\* Bound of the files explored.
MaxRecords == 2

\* The records files are built from: a full record, one that leaves
\* conditions and enabled to their defaults, one without a prompt template.
Records ==
    {Record({"event_pattern", "conditions", "prompt_template", "enabled"},
            Rule(<<"Issue", ".", "*">>,
                 <<Cond(<<"title">>, "equals", Str(<<"Bug">>))>>, <<"any issue">>, TRUE)),
     Record({"event_pattern", "prompt_template"},
            Rule(<<"Comment", ".", "create">>, <<>>, <<"comment">>, FALSE)),
     Record({"event_pattern", "enabled"},
            Rule(<<"Issue", ".", "update">>, <<>>, <<>>, TRUE))}

RoutesFiles ==
    {RoutesFile(k, <<>>) : k \in {"none", "missing", "unparseable", "notalist"}}
    \cup {RoutesFile("list", r) : r \in UNION {[1..k -> Records] : k \in 0..MaxRecords}}

\* The tables a handler is constructed with: WebhookServer passes none.
GivenTables == {<<>>, <<Rule(<<"*">>, <<>>, <<"given">>, TRUE)>>}

InitLoad ==
    /\ settings = [linear_webhook_secret |-> None,
                   max_timestamp_age_seconds |-> DefaultMaxAge,
                   max_budget_usd |-> None, task_prompt |-> None]
    /\ \E given \in GivenTables : \E file \in RoutesFiles :
          /\ route_rules = given
          /\ loader = Load("start", given, file)
    /\ last = [handled |-> FALSE, req |-> NoRequest,
               outcome |-> Failed(HTTPException(0, <<>>), <<>>)]
    /\ deliveries = <<>>
    /\ units = <<>>
    /\ cost_file = <<>>
    /\ probe = NoCall
    /\ service = NoService
    /\ engine = NoEngine

Unloaded == <<settings, last, deliveries, units, cost_file, probe, service, engine>>

\* Mutation: the load empties the table before it reads the file.
LoadOpen_ClearsFirst ==
    /\ loader.pc = "start"
    /\ route_rules' = <<>>
    /\ loader' = [loader EXCEPT
            !.pc = IF loader.file.kind = "list" THEN "building" ELSE "done",
            !.outcome = CASE loader.file.kind = "none" -> "skipped"
                          [] loader.file.kind = "missing" -> "missing"
                          [] loader.file.kind = "unparseable" -> "failed"
                          [] loader.file.kind = "notalist" -> "invalid"
                          [] OTHER -> "none"]
    /\ UNCHANGED Unloaded

\* Up to the list comprehension: no file configured returns, a missing file
\* warns and returns, a YAML error is caught and logged, content that is no
\* list warns; a list goes on to be built.
LoadOpen ==
    /\ loader.pc = "start"
    /\ loader' = [loader EXCEPT
            !.pc = IF loader.file.kind = "list" THEN "building" ELSE "done",
            !.outcome = CASE loader.file.kind = "none" -> "skipped"
                          [] loader.file.kind = "missing" -> "missing"
                          [] loader.file.kind = "unparseable" -> "failed"
                          [] loader.file.kind = "notalist" -> "invalid"
                          [] OTHER -> "none"]
    /\ UNCHANGED <<route_rules, Unloaded>>

\* Mutation: each rule is put into the live table as it is built.
LoadBuild_InPlace ==
    /\ loader.pc = "building"
    /\ Len(loader.built) < Len(loader.file.records)
    /\ LET record == loader.file.records[Len(loader.built) + 1] IN
       IF Validates(record)
       THEN /\ loader' = [loader EXCEPT !.built = Append(@, WebhookRouteRule(record))]
            /\ route_rules' = Append(loader.built, WebhookRouteRule(record))
       ELSE /\ loader' = [loader EXCEPT !.pc = "done", !.outcome = "failed"]
            /\ UNCHANGED route_rules
    /\ UNCHANGED Unloaded

\* One turn of the list comprehension: the next record becomes a rule of the
\* list being built, or fails validation, which ends the load in the except
\* clause.
LoadBuild ==
    /\ loader.pc = "building"
    /\ Len(loader.built) < Len(loader.file.records)
    /\ LET record == loader.file.records[Len(loader.built) + 1] IN
       IF Validates(record)
       THEN loader' = [loader EXCEPT !.built = Append(@, WebhookRouteRule(record))]
       ELSE loader' = [loader EXCEPT !.pc = "done", !.outcome = "failed"]
    /\ UNCHANGED <<route_rules, Unloaded>>

\* Mutation: the file's rules are added to the rules the handler has.
LoadAssign_Extends ==
    /\ loader.pc = "building"
    /\ Len(loader.built) = Len(loader.file.records)
    /\ route_rules' = route_rules \o loader.built
    /\ loader' = [loader EXCEPT !.pc = "done", !.outcome = "loaded"]
    /\ UNCHANGED Unloaded

\* self.route_rules = [...]: the finished list is assigned.
LoadAssign ==
    /\ loader.pc = "building"
    /\ Len(loader.built) = Len(loader.file.records)
    /\ route_rules' = loader.built
    /\ loader' = [loader EXCEPT !.pc = "done", !.outcome = "loaded"]
    /\ UNCHANGED Unloaded

\* A find_matching_rule call on the handler, at any point of the load.
LoadFind ==
    /\ loader.pc # "none"
    /\ \E payload \in Payloads :
          loader' = [loader EXCEPT
                !.read = TRUE,
                !.key = get_event_key(payload),
                !.seen = route_rules,
                !.found = find_matching_rule(route_rules, get_event_key(payload), payload)]
    /\ UNCHANGED <<route_rules, Unloaded>>

NextLoad == LoadOpen \/ LoadBuild \/ LoadAssign \/ LoadFind

SpecLoad == InitLoad /\ [][NextLoad]_vars

\* ---------------------------------------------- run_service (runner.py)

\* Bound of the model: the runs a service makes at most.
MaxRuns == 3

\* How an await of run_once ends: a result that is a success or not, or an
\* exception.
RunOnceOutcomes == {"success", "failed", "raised"}

InitService ==
    /\ settings = [linear_webhook_secret |-> None,
                   max_timestamp_age_seconds |-> DefaultMaxAge,
                   max_budget_usd |-> None, task_prompt |-> Str(DefaultTask)]
    /\ route_rules = <<>>
    /\ last = [handled |-> FALSE, req |-> NoRequest,
               outcome |-> Failed(HTTPException(0, <<>>), <<>>)]
    /\ deliveries = <<>>
    /\ units = <<>>
    /\ cost_file = <<>>
    /\ probe = NoCall
    /\ loader = NoLoad
    /\ service = Service("idle")
    /\ engine = NoEngine

Unserved == <<settings, route_rules, last, deliveries, units, cost_file, probe, loader, engine>>

\* run_service from its call to the first await of run_once: _running is
\* set, the event is cleared, the loop is entered and the first run starts.
ServiceStart ==
    /\ service.pc = "idle"
    /\ service' = [service EXCEPT !.pc = "run", !._running = TRUE,
                                  !._shutdown_event = FALSE, !.run_count = 1]
    /\ UNCHANGED Unserved

\* The await of run_once ends (a result is returned, or the exception is
\* caught and logged), and wait_for is entered: when the event is set
\* already, _shutdown_event.wait() returns at once and the loop is left by
\* the break.
ServiceRunEnds ==
    /\ service.pc = "run"
    /\ \E outcome \in RunOnceOutcomes :
          service' = [service EXCEPT
                !.results = Append(@, outcome),
                !.pc = IF service._shutdown_event THEN "returned" ELSE "wait",
                !.left = IF service._shutdown_event THEN "break" ELSE @]
    /\ UNCHANGED Unserved

\* Mutation: the loop does not test _running.
ServiceTimeout_Forever ==
    /\ service.pc = "wait"
    /\ service.run_count < MaxRuns
    /\ service' = [service EXCEPT !.pc = "run", !.run_count = @ + 1]
    /\ UNCHANGED Unserved

\* wait_for times out after service_interval_seconds: TimeoutError is
\* passed over, the loop tests _running and starts the next run or ends.
\* (The timeout can fire in the same turn of the event loop in which the
\* event is set.)
ServiceTimeout ==
    /\ service.pc = "wait"
    /\ service._running => service.run_count < MaxRuns
    /\ service' = IF service._running
                  THEN [service EXCEPT !.pc = "run", !.run_count = @ + 1]
                  ELSE [service EXCEPT !.pc = "returned", !.left = "while"]
    /\ UNCHANGED Unserved

\* _shutdown_event.wait() returns inside wait_for: break.
ServiceWake ==
    /\ service.pc = "wait"
    /\ service._shutdown_event
    /\ service' = [service EXCEPT !.pc = "returned", !.left = "break"]
    /\ UNCHANGED Unserved

\* stop() or a signal: _handle_shutdown runs between two steps of the
\* coroutine.
ServiceStop ==
    /\ service.pc \in {"run", "wait"}
    /\ service' = [service EXCEPT
            !._running = FALSE, !._shutdown_event = TRUE,
            !.stop_at = IF @ < 0 THEN service.run_count ELSE @,
            !.stop_in_run = IF service.stop_at < 0 THEN service.pc = "run" ELSE @]
    /\ UNCHANGED Unserved

NextService ==
    ServiceStart \/ ServiceRunEnds \/ ServiceTimeout \/ ServiceWake \/ ServiceStop

SpecService == InitService /\ [][NextService]_vars

\* The event loop resumes a coroutine whose await is over: a run_once ends
\* (the engine's run is bounded by its turn limit and timeouts), and a
\* waiter whose event is set is woken.
FairService == WF_vars(ServiceRunEnds) /\ WF_vars(ServiceWake)

SpecServiceFair == SpecService /\ FairService

\* ---------------------------------------------- AgentEngine.run (engine.py)

\* Bound of the model: the messages a stream yields at most.
MaxMessages == 3

\* The messages of the SDK: system, assistant and user messages, and result
\* messages with a subtype (the last one is a subtype status_map lacks).
ResultSubtypes ==
    {"success", "error_max_turns", "error_during_execution",
     "error_max_structured_output_retries", "error_other"}

Messages ==
    {[kind |-> k, subtype |-> "none"] : k \in {"system", "assistant", "user"}}
    \cup {[kind |-> "result", subtype |-> st] : st \in ResultSubtypes}

\* status_map.get(subtype, AgentStatus.ERROR)
status_map(subtype) ==
    CASE subtype = "success" -> "success"
      [] subtype = "error_max_turns" -> "max_turns_reached"
      [] subtype = "error_during_execution" -> "error"
      [] subtype = "error_max_structured_output_retries" -> "error"
      [] OTHER -> "error"

\* result.status after _process_message(message, result) has returned.
_process_message(message, status) ==
    IF message.kind = "result" THEN status_map(message.subtype) ELSE status

\* Mutation: the status a result message set is kept when an exception
\* follows.
Caught_KeepsResult(status) == IF status = "running" THEN "error" ELSE status

\* The except clause of run.
Caught(status) == "error"

\* After the try statement: a status that is still RUNNING becomes SUCCESS.
Finish(status) == IF status = "running" THEN "success" ELSE status

InitEngine ==
    /\ settings = [linear_webhook_secret |-> None,
                   max_timestamp_age_seconds |-> DefaultMaxAge,
                   max_budget_usd |-> None, task_prompt |-> Str(DefaultTask)]
    /\ route_rules = <<>>
    /\ last = [handled |-> FALSE, req |-> NoRequest,
               outcome |-> Failed(HTTPException(0, <<>>), <<>>)]
    /\ deliveries = <<>>
    /\ units = <<>>
    /\ cost_file = <<>>
    /\ probe = NoCall
    /\ loader = NoLoad
    /\ service = NoService
    /\ engine = Engine("idle")

Unengined ==
    <<settings, route_rules, last, deliveries, units, cost_file, probe, loader, service>>

\* run up to the async for: the import of the SDK is outside the try
\* statement, so an ImportError leaves run; otherwise the result is created
\* with status RUNNING.  An exception of _build_options or of the call of
\* query is caught like one of the stream.
EngineRun ==
    /\ engine.pc = "idle"
    /\ \E importable \in BOOLEAN :
          engine' = IF importable
                    THEN [engine EXCEPT !.pc = "stream", !.status = "running"]
                    ELSE [engine EXCEPT !.pc = "raised", !.error_type = "ImportError"]
    /\ UNCHANGED Unengined

\* The stream yields a message and _process_message runs: it returns, or it
\* raises (a callback, the logger or a malformed message), before or after
\* it has set the status; the exception is caught and run returns.
EngineMessage ==
    /\ engine.pc = "stream"
    /\ Len(engine.seen) < MaxMessages
    /\ \E message \in Messages : \E raises \in {"no", "before", "after"} :
          engine' =
            IF raises = "no"
            THEN [engine EXCEPT !.seen = Append(@, message.kind),
                                !.status = _process_message(message, @)]
            ELSE [engine EXCEPT
                    !.seen = Append(@, message.kind),
                    !.pc = "returned",
                    !.error_type = "processing",
                    !.status = Finish(Caught(IF raises = "after"
                                             THEN _process_message(message, @)
                                             ELSE @))]
    /\ UNCHANGED Unengined

\* The stream raises instead of yielding: the exception is caught and run
\* returns.
EngineStreamRaises ==
    /\ engine.pc = "stream"
    /\ engine' = [engine EXCEPT !.pc = "returned", !.error_type = "stream",
                                !.status = Finish(Caught(@))]
    /\ UNCHANGED Unengined

\* The stream ends and run returns.
EngineStreamEnds ==
    /\ engine.pc = "stream"
    /\ engine' = [engine EXCEPT !.pc = "returned", !.status = Finish(@)]
    /\ UNCHANGED Unengined

NextEngine == EngineRun \/ EngineMessage \/ EngineStreamRaises \/ EngineStreamEnds

SpecEngine == InitEngine /\ [][NextEngine]_vars

\* ------------------------------------------------------------ properties

Last(seq) == seq[Len(seq)]

Has(seq, x) == \E i \in DOMAIN seq : seq[i] = x

\* The steps of one delivery in their documented order.
StepOrder == <<"signature", "decode", "timestamp", "match", "render", "spawn", "return">>

Position(step) == CHOOSE i \in DOMAIN StepOrder : StepOrder[i] = step

SecretConfigured == settings.linear_webhook_secret \notin {None, Str(<<>>)}

\* The header is the hex HMAC-SHA256 of the raw body keyed by the secret.
SignatureCorrect(req) ==
    req.signature = [kind |-> "hex", msg |-> req.body,
                     secret |-> settings.linear_webhook_secret.v]

\* The envelope a body decodes to and its event key.
EnvelopeOf(req) == LinearWebhookPayload(req.body.dict)
KeyOf(req) == <<req.body.dict.type, ".", req.body.dict.action>>

AgeMs(req) == Abs(req.now - EnvelopeOf(req).webhookTimestamp)

\* Some enabled rule of the table matches the request's event.
SomeRuleMatches(req) ==
    \E i \in DOMAIN route_rules :
        route_rules[i].enabled /\ matches(route_rules[i], KeyOf(req), EnvelopeOf(req))

\* The request passed the signature check (or none is configured), decoded
\* and passed the timestamp check.
Validated ==
    /\ last.handled
    /\ Has(last.outcome.steps, "match")

\* C1 (as claimed): with a secret configured, a delivery whose signature
\* header is absent or differs from the HMAC of the raw body is answered 401
\* after the signature step alone, and no unit is spawned for it.
C1_BadSignatureIs401 ==
    (last.handled /\ SecretConfigured /\ ~SignatureCorrect(last.req))
        => /\ last.outcome.resp.code = 401
           /\ last.outcome.steps = <<"signature">>
           /\ ~last.outcome.spawned
           /\ units[Len(units)].pc = "none"

\* Whether a step of the order, run on the request, fails (stops the
\* delivery), read off the request alone.
StepFails(step, req) ==
    CASE step = "signature" -> SecretConfigured /\ ~SignatureCorrect(req)
      [] step = "decode" -> ~Decodes(req.body)
      [] step = "timestamp" ->
            \/ req.body.dict.webhookTimestamp.t # "int"
            \/ req.body.dict.webhookTimestamp.v = 0
            \/ AgeMs(req) > settings.max_timestamp_age_seconds * 1000
      [] step = "match" -> ~SomeRuleMatches(req)
      [] step = "render" ->
            LET i == CHOOSE j \in DOMAIN route_rules :
                        /\ route_rules[j].enabled
                        /\ matches(route_rules[j], KeyOf(req), EnvelopeOf(req))
                        /\ \A k \in 1..(j - 1) :
                              ~(route_rules[k].enabled
                                /\ matches(route_rules[k], KeyOf(req), EnvelopeOf(req)))
            IN Format(route_rules[i].prompt_template,
                      render_context(EnvelopeOf(req))).exc \notin {"none", "KeyError"}
      [] OTHER -> FALSE

\* The status codes with which a failing step answers.
CodesOf(step) ==
    CASE step = "signature" -> {401, 500}
      [] step = "decode" -> {400}
      [] step = "timestamp" -> {400, 500}
      [] step = "match" -> {200}
      [] step = "render" -> {500}
      [] OTHER -> {}

\* The steps that apply to a request: the signature step only with a
\* secret configured.
Applies(step) == step # "signature" \/ SecretConfigured

C3_TimestampWindow ==
    (last.handled /\ Has(last.outcome.steps, "decode") /\ Decodes(last.req.body))
        => LET old == AgeMs(last.req) > settings.max_timestamp_age_seconds * 1000
               rejected == /\ last.outcome.resp.code = 400
                           /\ Last(last.outcome.steps) = "timestamp"
                           /\ ~last.outcome.spawned
           IN /\ rejected <=> old
              /\ ~old => Has(last.outcome.steps, "match")

FirstMatch(req) ==
    CHOOSE i \in DOMAIN route_rules :
        /\ route_rules[i].enabled
        /\ matches(route_rules[i], KeyOf(req), EnvelopeOf(req))
        /\ \A k \in 1..(i - 1) :
              ~(route_rules[k].enabled
                /\ matches(route_rules[k], KeyOf(req), EnvelopeOf(req)))

\* C9 (as claimed): every validated delivery that matches a rule is answered
\* "accepted" with event_key "<type>.<action>" and spawns one unit carrying
\* the prompt rendered from the first matching rule; the units spawned are
\* as many as the accepted responses.
C9_AcceptedSpawnsOne ==
    /\ (Validated /\ SomeRuleMatches(last.req))
          => /\ last.outcome.resp.status = "accepted"
             /\ last.outcome.resp.event_key = KeyOf(last.req)
             /\ last.outcome.spawned
             /\ units[Len(units)].pc # "none"
             /\ units[Len(units)].prompt =
                   render_prompt(route_rules[FirstMatch(last.req)],
                                 EnvelopeOf(last.req)).text
    /\ Cardinality({d \in DOMAIN units : units[d].pc # "none"})
          = Cardinality({d \in DOMAIN deliveries :
                            deliveries[d].resp.status = "accepted"})

\* The steps only a background unit runs.
UnitSteps == {"budget", "runtask", "track", "log"}

\* A unit that has started belongs to a delivery whose handler had returned
\* the accepted response without running any step of the unit.
C10_ReturnedFirst ==
    \A d \in DOMAIN units :
        /\ deliveries[d].resp.status = "accepted" =>
              /\ Last(deliveries[d].steps) = "return"
              /\ \A i \in DOMAIN deliveries[d].steps :
                    deliveries[d].steps[i] \notin UnitSteps
        /\ units[d].pc \in {"running", "done"} =>
              /\ deliveries[d].resp.code = 200
              /\ deliveries[d].resp.status = "accepted"

\* Whatever a unit does, the responses already given stay as they are, and
\* a unit is only scheduled, not started, by the step that answers.
C10_ResponseFixed ==
    /\ \A d \in DOMAIN deliveries : deliveries'[d] = deliveries[d]
    /\ \A d \in DOMAIN units' :
          d \notin DOMAIN units => units'[d].pc \in {"none", "scheduled"}

\* C10: dispatch is fire-and-forget: the accepted response is produced
\* without running the unit, the unit's budget check and RunTask begin
\* only after handle_linear_webhook has returned, and the status and body of
\* a response are the same whatever its unit does later.
C10_FireAndForget == [](C10_ReturnedFirst) /\ [][C10_ResponseFixed]_vars

\* C10 witness: one accepted delivery's unit ended with a failed result and
\* another's with a success.
C10_Witness ==
    /\ \E d \in DOMAIN units :
          /\ units[d].pc = "done" /\ units[d].status = "error"
          /\ deliveries[d].resp.status = "accepted"
    /\ \E d \in DOMAIN units :
          /\ units[d].pc = "done" /\ units[d].status = "success"
          /\ deliveries[d].resp.status = "accepted"

\* ------------------------------------------ properties of the matchers

\* The rules of a table that qualify for an event: enabled, pattern
\* matching the key, every condition true on the payload.
Qualifying(rules, event_key, payload) ==
    {i \in DOMAIN rules :
        /\ rules[i].enabled
        /\ _matches_event_pattern(rules[i].event_pattern, event_key)
        /\ \A c \in DOMAIN rules[i].conditions : evaluate(rules[i].conditions[c], payload)}

\* C4: find_matching_rule returns the qualifying rule of smallest index, and
\* none exactly when no rule qualifies; a later qualifying rule is never
\* preferred to an earlier one.
C4_FirstMatchWins ==
    (probe.kind = "find" /\ probe.done) =>
        LET q == Qualifying(probe.rules, probe.key, probe.payload) IN
        /\ (probe.index = 0) <=> (q = {})
        /\ q # {} => (probe.index \in q /\ \A j \in q : probe.index <= j)

\* A general rule comes first and a more specific rule that also qualifies
\* comes later: the general one is returned.
C4_Witness ==
    /\ probe.kind = "find" /\ probe.done
    /\ probe.index = 1
    /\ probe.rules[1].event_pattern = <<"Issue", ".", "*">>
    /\ \E j \in Qualifying(probe.rules, probe.key, probe.payload) :
          j > 1 /\ probe.rules[j].event_pattern = probe.key

\* The algorithm as specified: "*" alone matches every key; otherwise both
\* texts are split on "." and match iff they have as many segments and each
\* pattern segment is "*" or the key's segment.
SpecifiedMatch(pattern, key) ==
    \/ pattern = <<"*">>
    \/ /\ Len(Split(pattern)) = Len(Split(key))
       /\ \A i \in DOMAIN Split(pattern) :
             Split(pattern)[i] = <<"*">> \/ Split(pattern)[i] = Split(key)[i]

\* C5: for every pattern and key _matches_event_pattern agrees with the
\* specified algorithm, and a pattern without "*" matches exactly the key
\* equal to it.
C5_PatternAlgorithm ==
    (probe.kind = "pattern" /\ probe.done) =>
        /\ probe.result <=> SpecifiedMatch(probe.pattern, probe.key)
        /\ ~HasStar(probe.pattern) => (probe.result <=> (probe.pattern = probe.key))

\* "Issue.*" against "Issue": the segment counts differ, no match.
C5_Witness ==
    /\ probe.kind = "pattern" /\ probe.done
    /\ probe.pattern = <<"Issue", ".", "*">>
    /\ probe.key = <<"Issue">>
    /\ ~probe.result

\* C6: on an envelope a rule matches iff its pattern matches the key and
\* each of its conditions is true; without conditions the pattern decides;
\* one false condition makes it a non-match; no condition is evaluated when
\* the pattern does not match.
C6_PatternAndConditions ==
    (probe.kind = "matches" /\ probe.done /\ probe.payload.kind = "payload") =>
        LET rule == probe.rules[1]
            pattern_ok == _matches_event_pattern(rule.event_pattern, probe.key)
            falses == {c \in DOMAIN rule.conditions :
                          ~evaluate(rule.conditions[c], probe.payload)}
        IN /\ probe.result <=> (pattern_ok /\ falses = {})
           /\ rule.conditions = <<>> => (probe.result <=> pattern_ok)
           /\ falses # {} => ~probe.result
           /\ ~pattern_ok => probe.evaluated = {}

\* The pattern matches, the first condition is true, the second is false:
\* both were evaluated and the rule does not match.
C6_Witness ==
    /\ probe.kind = "matches" /\ probe.done /\ probe.payload.kind = "payload"
    /\ _matches_event_pattern(probe.rules[1].event_pattern, probe.key)
    /\ Len(probe.rules[1].conditions) = 2
    /\ evaluate(probe.rules[1].conditions[1], probe.payload)
    /\ ~evaluate(probe.rules[1].conditions[2], probe.payload)
    /\ probe.evaluated = {1, 2}
    /\ ~probe.result

\* The field path leads to a value in the map.
RECURSIVE PathPresent(_, _)
PathPresent(value, parts) ==
    IF parts = <<>> THEN TRUE
    ELSE /\ value.t = "dict"
         /\ Head(parts) \in DOMAIN value.v
         /\ PathPresent(value.v[Head(parts)], Tail(parts))

\* C7, as claimed: "changed" on a field path absent from updatedFrom is
\* false whatever value the field has in data.
C7_ChangedAbsentIsFalse ==
    (/\ probe.kind = "evaluate" /\ probe.done
     /\ probe.cond.operator = "changed"
     /\ ~PathPresent(probe.payload.updatedFrom, Split(probe.cond.field))) =>
        ~probe.result

\* ------------------------------------------ properties of the units

\* The ledger unit d read when it was constructed: its summary without the
\* entry it added itself.
LedgerRead(d) == SelectSeq(units[d].summary, LAMBDA e : e.unit # d)

\* The entries unit d recorded, in its own summary and in the cost file.
EntriesOf(d) ==
    {i \in DOMAIN units[d].summary : units[d].summary[i].unit = d}
    \cup {i \in DOMAIN cost_file : cost_file[i].unit = d}

OverBudget(d) ==
    /\ settings.max_budget_usd.t # "none"
    /\ SumCosts(LedgerRead(d)) >= settings.max_budget_usd.v

C11_BudgetGate ==
    \A d \in DOMAIN units :
        Has(units[d].steps, "budget") =>
            IF OverBudget(d)
            THEN /\ units[d].pc = "done"
                 /\ units[d].status = "budget_exceeded"
                 /\ ~Has(units[d].steps, "runtask")
                 /\ EntriesOf(d) = {}
            ELSE Has(units[d].steps, "runtask")

C11_NoRetry ==
    \A d \in DOMAIN units :
        units[d].status = "budget_exceeded" => units'[d] = units[d]

\* C11: a unit checks the budget before it invokes the engine; with the
\* ledger it read at or above the configured limit the engine is not invoked,
\* no cost entry is recorded and the unit ends budget-exceeded and is never
\* run again; without a limit, or below it, the check passes.
C11_BudgetBeforeEngine == [](C11_BudgetGate) /\ [][C11_NoRetry]_vars

\* A unit found the ledger exactly at the limit and stopped.
C11_Witness ==
    \E d \in DOMAIN units :
        /\ units[d].status = "budget_exceeded"
        /\ SumCosts(LedgerRead(d)) = settings.max_budget_usd.v
        /\ cost_file # <<>>

\* How many times unit d invoked the engine.
Runs(d) == Cardinality({i \in DOMAIN units[d].steps : units[d].steps[i] = "runtask"})

C12_AtMostOnce ==
    \A d \in DOMAIN units :
        /\ Runs(d) <= 1
        /\ Runs(d) = 1 => deliveries[d].resp.status = "accepted"
        /\ units[d].pc = "done" => units[d].logged # "none"

C12_Swallowed ==
    \A d \in DOMAIN units :
        /\ units[d].pc = "done" => units'[d] = units[d]
        /\ units'[d] # units[d] =>
              /\ deliveries' = deliveries /\ last' = last /\ route_rules' = route_rules
              /\ \A e \in DOMAIN units \ {d} : units'[e] = units[e]

\* C12: the engine is invoked at most once for an accepted delivery; a
\* failed result or an exception inside the unit ends the unit with a log
\* record, changes nothing of the server or of another delivery's unit, and
\* the unit is never run again.
C12_RunOnceAndSwallow == [](C12_AtMostOnce) /\ [][C12_Swallowed]_vars

\* The engine raised in one unit: the failure was logged, the other unit
\* ran to success and the server answered the later delivery.
C12_Witness ==
    /\ Len(units) = 2
    /\ units[1].pc = "done" /\ Runs(1) = 1 /\ units[1].status = "none"
    /\ units[1].logged = "error: Error running agent"
    /\ units[2].pc = "done" /\ units[2].status = "success"

\* ------------------------------------------ properties of the load

\* The file is malformed: no YAML, no list, or a record that is no rule.
Malformed(file) ==
    \/ file.kind \in {"unparseable", "notalist"}
    \/ file.kind = "list" /\ \E i \in DOMAIN file.records : ~Validates(file.records[i])

\* The table a well-formed list file holds.
FileTable(file) == [i \in DOMAIN file.records |-> WebhookRouteRule(file.records[i])]

\* C13 (as claimed): with a malformed routes file the load does not raise
\* and the route table is empty, so that no event finds a rule.
C13_MalformedIsEmpty ==
    (loader.pc = "done" /\ Malformed(loader.file)) =>
        /\ loader.outcome \in {"failed", "invalid"}
        /\ route_rules = <<>>
        /\ loader.read => loader.found = 0

\* C13 (amended): with a malformed routes file the load does not raise and
\* the route table is the one the handler was constructed with; for the
\* server, which constructs the handler without rules, it is empty and no
\* event finds a rule, before, during or after the load.
C13_MalformedKeepsGiven ==
    Malformed(loader.file) =>
        /\ route_rules = loader.given
        /\ loader.pc = "done" => loader.outcome \in {"failed", "invalid"}
        /\ loader.given = <<>> => (route_rules = <<>> /\ loader.found = 0)

\* A file whose second record is no rule was loaded into a handler
\* constructed without rules, and an Issue.create event found no rule.
C13_Witness ==
    /\ loader.pc = "done" /\ loader.outcome = "failed"
    /\ loader.file.kind = "list" /\ Len(loader.built) = 1
    /\ loader.given = <<>> /\ route_rules = <<>>
    /\ loader.read /\ loader.key = <<"Issue", ".", "create">> /\ loader.found = 0

C14_Snapshots ==
    /\ route_rules = loader.given
       \/ (loader.outcome = "loaded" /\ route_rules = FileTable(loader.file))
    /\ loader.read =>
          \/ loader.seen = loader.given
          \/ (~Malformed(loader.file) /\ loader.file.kind = "list"
              /\ loader.seen = FileTable(loader.file))
    /\ loader.outcome \in {"failed", "invalid", "missing", "skipped"} =>
          route_rules = loader.given

C14_OneAssignment ==
    route_rules' # route_rules =>
        /\ loader.pc = "building" /\ loader'.outcome = "loaded"
        /\ route_rules' = FileTable(loader.file)

\* C14: a load replaces the table by one assignment of the fully built
\* list; a find_matching_rule call at any point of the load reads the whole
\* old table or the whole new one, and a load that fails while building
\* leaves the old table.
C14_AtomicReplace == [](C14_Snapshots) /\ [][C14_OneAssignment]_vars

\* While the second rule of a file was still to be built, a call read the
\* old table; the load then finished and installed both rules.
C14_Witness ==
    /\ loader.outcome = "loaded" /\ Len(route_rules) = 2
    /\ loader.given # <<>> /\ route_rules # loader.given
    /\ loader.read /\ loader.seen = loader.given

\* ------------------------------------------ properties of the renderer

\* A template of plain text and placeholders "{name}" only.
RECURSIVE Plain(_)
Plain(template) ==
    IF template = <<>> THEN TRUE
    ELSE IF Head(template) = "}" THEN FALSE
    ELSE IF Head(template) = "{"
         THEN /\ Len(template) >= 3
              /\ template[2] \notin {"{", "}"} /\ template[3] = "}"
              /\ Plain(SubSeq(template, 4, Len(template)))
    ELSE Plain(Tail(template))

\* The names of the placeholders of a plain template, in order.
RECURSIVE PlaceholderNames(_)
PlaceholderNames(template) ==
    IF template = <<>> THEN <<>>
    ELSE IF Head(template) = "{"
         THEN <<template[2]>> \o PlaceholderNames(SubSeq(template, 4, Len(template)))
    ELSE PlaceholderNames(Tail(template))

\* A plain template with each placeholder replaced by the text of its value.
RECURSIVE Substituted(_, _)
Substituted(template, context) ==
    IF template = <<>> THEN <<>>
    ELSE IF Head(template) = "{"
         THEN StrOf(context[<<template[2]>>])
              \o Substituted(SubSeq(template, 4, Len(template)), context)
    ELSE <<Head(template)>> \o Substituted(Tail(template), context)

\* C15, as claimed: render_prompt never raises; with every placeholder
\* naming a context key the result is the exact substitution; with a
\* placeholder naming a key the context lacks, the result is an error marker
\* followed by the template as written.
C15_RenderNeverRaises ==
    (probe.kind = "render" /\ probe.done) =>
        LET template == probe.rules[1].prompt_template
            context == render_context(probe.payload)
            names == IF Plain(template) THEN PlaceholderNames(template) ELSE <<>>
            missing == {i \in DOMAIN names : <<names[i]>> \notin DOMAIN context}
        IN /\ probe.rendered.exc = "none"
           /\ (Plain(template) /\ missing = {}) =>
                 probe.rendered.text = Substituted(template, context)
           /\ (Plain(template) /\ missing # {}) =>
                 \E i \in missing :
                    probe.rendered.text =
                        <<"[Template Error: Missing key ", "'", names[i], "'", "]", "\n\n">>
                        \o template

\* ------------------------------------------ properties of the responses

\* C16, as claimed: every response has status 200, 400 or 401: 401 only
\* from the signature step, 400 only from decoding or the timestamp check,
\* 200 for accepted and ignored.
C16_OnlyTransportCodes ==
    last.handled =>
        LET resp == last.outcome.resp
            step == Last(last.outcome.steps)
        IN /\ resp.code \in {200, 400, 401}
           /\ resp.code = 401 => step = "signature"
           /\ resp.code = 400 => step \in {"decode", "timestamp"}
           /\ resp.code = 200 <=> resp.status \in {"accepted", "ignored"}

\* ------------------------------------------ progress of the units

Terminal(d) ==
    /\ units[d].pc = "done"
    /\ \/ units[d].status = "budget_exceeded"
       \/ units[d].status = "success"
       \/ units[d].logged \in {"error: Agent failed", "error: Error running agent"}

C17_Terminates ==
    \A d \in 1..MaxDeliveries :
        (d <= Len(deliveries) /\ deliveries[d].resp.status = "accepted") ~>
            (d <= Len(units) /\ Terminal(d))

C17_NeverRemoved ==
    \A d \in DOMAIN units :
        /\ d \in DOMAIN units'
        /\ units[d].pc # "none" => units'[d].pc # "none"
        /\ units[d].pc = "running" => units'[d].pc \in {"running", "done"}

\* C17: with the event loop giving every ready task its turn and engine.run
\* ending, the unit of every accepted delivery reaches a terminal outcome
\* (stopped by the budget, run succeeded, or failure logged), and no action
\* of the server cancels or removes a unit.
C17_UnitsFinish == C17_Terminates /\ [][C17_NeverRemoved]_vars

\* Two accepted deliveries: one unit was stopped by the budget, the other
\* ended with an error result.
C17_Witness ==
    /\ Len(units) = 2
    /\ deliveries[1].resp.status = "accepted" /\ deliveries[2].resp.status = "accepted"
    /\ Terminal(1) /\ Terminal(2)
    /\ {units[1].status, units[2].status} = {"budget_exceeded", "error"}

\* ------------------------------------------ properties without a secret

\* C18: with no secret configured (unset or empty) the signature step is
\* skipped and the warning is logged, and the delivery has the same outcome
\* with every Linear-Signature header: absent, empty, wrong or correct.
C18_InsecureMode ==
    (last.handled /\ ~SecretConfigured) =>
        /\ last.outcome.warned
        /\ ~Has(last.outcome.steps, "signature")
        /\ \A signature \in SignatureHeaders(last.req.body) :
              linear_webhook(settings, route_rules,
                             [last.req EXCEPT !.signature = signature]) = last.outcome

\* With an empty secret, a delivery signed under another key was accepted.
C18_Witness ==
    /\ last.handled /\ settings.linear_webhook_secret = Str(<<>>)
    /\ last.req.signature = Hmac(Secret2, last.req.body)
    /\ last.outcome.warned
    /\ last.outcome.resp.status = "accepted"

\* ------------------------------------------ properties of the unit's log

\* C19: a unit whose run returned status success logged the success record
\* (with the run's token count and cost) and no error record; a unit whose
\* run returned another status logged the error record that carries the
\* result's error message.
C19_ResultLogged ==
    \A d \in 1..Len(units) :
        (units[d].pc = "done" /\ units[d].status # "none") =>
            units[d].logged = IF units[d].status = "success"
                              THEN "info: Agent completed successfully"
                              ELSE "error: Agent failed"

\* ------------------------------------------ properties of concurrent units

\* The prompt rendered from delivery d's payload and the rule it matched.
RenderedFor(d) == linear_webhook(settings, route_rules, deliveries[d].req).prompt

\* A unit that called engine.run called it with the prompt of its own delivery.
C20_OwnPrompt ==
    \A d \in 1..Len(units) :
        Has(units[d].steps, "runtask") => units[d].task_prompt = RenderedFor(d)

\* A unit that is scheduled can start and one that is running can finish,
\* wherever the other units stand.
C20_NoWaiting ==
    \A d \in 1..Len(units) :
        /\ units[d].pc = "scheduled" => ENABLED UnitStart(d)
        /\ units[d].pc = "running" => ENABLED UnitFinish(d)

\* C20: under any interleaving of deliveries, each unit passes to engine.run
\* exactly the prompt rendered from its own delivery's payload and matched
\* rule, and no unit's start or completion waits on another unit.
C20_IndependentUnits == C20_OwnPrompt /\ C20_NoWaiting

\* ------------------------------------------ properties of disabled rules

\* C21: find_matching_rule never returns a rule that is not enabled and
\* never calls matches on one (neither its pattern nor its conditions are
\* evaluated); rules that are not enabled before an enabled rule that
\* matches do not keep that rule from being returned.
C21_DisabledSkipped ==
    (probe.kind = "find" /\ probe.done) =>
        /\ probe.index # 0 => probe.rules[probe.index].enabled
        /\ \A i \in probe.evaluated : probe.rules[i].enabled
        /\ \A j \in DOMAIN probe.rules :
              (/\ probe.rules[j].enabled
               /\ matches(probe.rules[j], probe.key, probe.payload)
               /\ \A i \in 1..(j - 1) : ~probe.rules[i].enabled)
              => probe.index = j

\* A disabled catch-all comes first, an enabled rule that matches second:
\* the second is returned and the first was not evaluated.
C21_Witness ==
    /\ probe.kind = "find" /\ probe.done
    /\ Len(probe.rules) >= 2
    /\ ~probe.rules[1].enabled /\ probe.rules[1].event_pattern = <<"*">>
    /\ probe.index = 2
    /\ probe.evaluated = {2}

\* ------------------------------------------ properties of the operators

\* What "changed" is to return on an envelope that has an updatedFrom.
Differs(cond, payload) ==
    ~PyEq(_get_field_value_from_dict(payload.data, cond.field),
          _get_field_value_from_dict(payload.updatedFrom.v, cond.field))

\* The result of the call does not depend on the operand.
OperandIgnored ==
    \A v \in Operands :
        evaluate([probe.cond EXCEPT !.value = v], probe.payload) = probe.result

\* C22: for "changed", evaluate returns false when the envelope has no
\* updatedFrom; when it has one, it returns true iff the value at the field
\* path in data differs from the value at the same path in updatedFrom; the
\* operand never affects the result.
C22_Changed ==
    (probe.kind = "evaluate" /\ probe.done /\ probe.cond.operator = "changed") =>
        /\ probe.result = IF probe.payload.updatedFrom = None THEN FALSE
                          ELSE Differs(probe.cond, probe.payload)
        /\ OperandIgnored

\* C22 as the code has it: an updatedFrom that is an empty map counts as
\* none (false for every field); true iff the two values differ only when
\* updatedFrom is a map with at least one key.
C22_ChangedNonEmpty ==
    (probe.kind = "evaluate" /\ probe.done /\ probe.cond.operator = "changed") =>
        /\ probe.result = IF probe.payload.updatedFrom \in {None, Dict(<<>>)} THEN FALSE
                          ELSE Differs(probe.cond, probe.payload)
        /\ OperandIgnored

\* "changed" with an operand was evaluated on an envelope whose updatedFrom
\* holds another value for the field, and returned true.
C22_Witness ==
    /\ probe.kind = "evaluate" /\ probe.done /\ probe.cond.operator = "changed"
    /\ probe.cond.value = Str(<<"Bug">>)
    /\ probe.cond.field = <<"title">>
    /\ probe.payload.updatedFrom = Dict((<<"title">> :> Str(<<"Old">>)))
    /\ probe.result

\* The operators evaluate has a branch for.
KnownOperators == {"equals", "not_equals", "contains", "in", "changed"}

HasUnknownOperator(rule) ==
    \E c \in DOMAIN rule.conditions : rule.conditions[c].operator \notin KnownOperators

\* C23: for an operator outside the known ones evaluate returns false; a
\* rule with such a condition matches no event, is never the rule
\* find_matching_rule returns for an event, and does not keep a qualifying
\* rule after it from being returned.
C23_UnknownOperatorFailsClosed ==
    /\ (probe.kind = "evaluate" /\ probe.done
        /\ probe.cond.operator \notin KnownOperators) => ~probe.result
    /\ (probe.kind = "matches" /\ probe.done /\ probe.payload.kind = "payload"
        /\ HasUnknownOperator(probe.rules[1])) => ~probe.result
    /\ (probe.kind = "find" /\ probe.done) =>
          /\ probe.index # 0 => ~HasUnknownOperator(probe.rules[probe.index])
          /\ \A j \in Qualifying(probe.rules, probe.key, probe.payload) :
                (\A i \in 1..(j - 1) : HasUnknownOperator(probe.rules[i]))
                => probe.index = j

\* The first rule of the table has a condition with an unknown operator and
\* a pattern that matches the event; the rule after it is returned.
C23_Witness ==
    /\ probe.kind = "find" /\ probe.done
    /\ Len(probe.rules) >= 2
    /\ HasUnknownOperator(probe.rules[1])
    /\ probe.rules[1].enabled
    /\ _matches_event_pattern(probe.rules[1].event_pattern, probe.key)
    /\ probe.index = 2

\* ------------------------------------------ properties of field resolution

\* The value at a path every segment of which is a key of the map reached.
RECURSIVE ValueAt(_, _)
ValueAt(value, parts) ==
    IF parts = <<>> THEN value ELSE ValueAt(value.v[Head(parts)], Tail(parts))

\* C24: resolution of a dotted path in data gives the nested value when each
\* segment is a key of a map at its level and None as soon as a segment is
\* missing or the value reached is not a map; a field that is absent
\* compares like null: equals null is true, not_equals of a non-null
\* operand is true.
C24_FieldResolution ==
    (probe.kind = "evaluate" /\ probe.done) =>
        LET data == Dict(probe.payload.data)
            parts == Split(probe.cond.field)
            field_value == _get_field_value(probe.payload, probe.cond.field)
        IN /\ PathPresent(data, parts) => field_value = ValueAt(data, parts)
           /\ ~PathPresent(data, parts) =>
                 /\ field_value = None
                 /\ (probe.cond.operator = "equals" /\ probe.cond.value = None)
                       => probe.result
                 /\ (probe.cond.operator = "not_equals" /\ probe.cond.value # None)
                       => probe.result

\* The path goes through a value that is not a map (title is text), and
\* the field was compared with null.
C24_Witness ==
    /\ probe.kind = "evaluate" /\ probe.done
    /\ probe.cond = Cond(<<"title", ".", "name">>, "equals", None)
    /\ <<"title">> \in DOMAIN probe.payload.data
    /\ probe.result

\* ------------------------------------------ properties of decoding

\* The request got past the signature step: there is no secret, or the
\* header is the digest of the body under the secret.
SignaturePassed(req) ==
    \/ ~Truthy(settings.linear_webhook_secret)
    \/ req.signature = Hmac(settings.linear_webhook_secret.v, req.body)

\* The envelope is one the specification rejects at decode time.
Undecodable(body) ==
    \/ ~body.wellformed
    \/ ~(RequiredFields \subseteq body.present)
    \/ body.dict.action \notin {"create", "update", "remove"}
    \/ body.dict.type \notin LinearEventType

\* C25: a body that is not JSON, lacks a required field or has an action or
\* type outside the known ones is answered 400, and no timestamp check, no
\* matching and no dispatch happens for it; every other body gets past the
\* decode step whatever keys its data map has.
C25_DecodeRejects ==
    \A d \in 1..Len(deliveries) :
        SignaturePassed(deliveries[d].req) =>
            IF Undecodable(deliveries[d].req.body)
            THEN /\ deliveries[d].resp.code = 400
                 /\ Last(deliveries[d].steps) = "decode"
                 /\ \A step \in {"timestamp", "match", "render", "spawn"} :
                       ~Has(deliveries[d].steps, step)
                 /\ units[d] = NoUnit
            ELSE Has(deliveries[d].steps, "timestamp")

\* With a secret configured, a correctly signed body of an unknown entity
\* type was answered 400, and a comment (data without the issue keys) got
\* past the decode step.
C25_Witness ==
    /\ Truthy(settings.linear_webhook_secret)
    /\ Len(deliveries) = 2
    /\ deliveries[1].req.body = BadType
    /\ deliveries[1].resp.code = 400
    /\ deliveries[2].req.body.dict.data = DataComment
    /\ Has(deliveries[2].steps, "match")

\* ------------------------------------------ properties of the service loop

Stopped == service.stop_at >= 0

\* No run_once is started once stop was invoked.
C26_NoRunAfterStop == Stopped => service.run_count = service.stop_at

\* A run that was in progress when stop was invoked ended by itself: its
\* result is there once the service has returned.
C26_RunFinishes ==
    (Stopped /\ service.pc = "returned") => Len(service.results) = service.run_count

\* In the wait, a service that was stopped can return at once.
C26_NoWaitingOut ==
    (Stopped /\ service.pc = "wait") => ENABLED ServiceWake

\* Only stop ends the loop: a service that returned was stopped.
C26_OnlyStopEnds == service.pc = "returned" => Stopped

\* C26: once stop is invoked during run_service (in a run_once or in the
\* wait), no further run_once is started, the run in progress finishes,
\* and run_service returns without waiting for the interval to pass; a
\* run_once that fails or raises does not end the loop.
C26_ServiceStops ==
    /\ [](C26_NoRunAfterStop /\ C26_RunFinishes /\ C26_NoWaitingOut /\ C26_OnlyStopEnds)
    /\ (Stopped ~> service.pc = "returned")

\* After a run that raised and one that failed, stop came during the third
\* run; that run finished and the service returned by the break.
C26_Witness ==
    /\ service.pc = "returned" /\ service.left = "break"
    /\ service.stop_in_run
    /\ service.stop_at = 3
    /\ service.results[1] = "raised" /\ service.results[2] = "failed"
    /\ Len(service.results) = 3

\* ------------------------------------------ properties of the cost file

\* The units whose run returned a result from the engine (track_result ran).
Tracked == {d \in 1..Len(units) : Has(units[d].steps, "track")}

\* C27: once every unit has finished, the cost file has one entry for every
\* run for which the engine returned (no entry is lost to another unit's
\* rewrite), and nothing else.
C27_NoLostEntry ==
    (\A d \in 1..Len(units) : units[d].pc \in {"none", "done"}) =>
        /\ \A d \in Tracked :
              Cardinality({i \in DOMAIN cost_file : cost_file[i].unit = d}) = 1
        /\ Len(cost_file) = Cardinality(Tracked)

\* ------------------------------------------ properties of repeated deliveries

\* C28: deliveries are not de-duplicated: a request delivered again (same
\* body, same signature, same ids) is answered as it was the first time,
\* and when that is accepted each of the two deliveries has a unit of its
\* own, so the agent runs once per delivery.
C28_NoDeduplication ==
    \A d \in 1..Len(deliveries) : \A e \in (d + 1)..Len(deliveries) :
        deliveries[d].req = deliveries[e].req =>
            /\ deliveries[e].resp = deliveries[d].resp
            /\ deliveries[d].resp.status = "accepted" =>
                  /\ units[d].pc # "none" /\ units[e].pc # "none"
                  /\ units[d].prompt = units[e].prompt
                  /\ Runs(d) <= 1 /\ Runs(e) <= 1

\* The same signed request was delivered twice; both deliveries were
\* accepted and both units called the engine.
C28_Witness ==
    /\ Len(deliveries) = 2
    /\ Truthy(settings.linear_webhook_secret)
    /\ deliveries[1].req = deliveries[2].req
    /\ deliveries[1].resp.status = "accepted" /\ deliveries[2].resp.status = "accepted"
    /\ Runs(1) = 1 /\ Runs(2) = 1

\* ------------------------------------------ properties of the load's effect

\* The load is skipped or fails: no file configured, file missing, content
\* that is no list, or a parse or validation error.
SkippedOrFailed(file) == file.kind \in {"none", "missing"} \/ Malformed(file)

\* C29: a load that is skipped or fails leaves route_rules as passed to the
\* constructor; a load that succeeds leaves exactly the file's rules, in
\* the order of the file, and none of the constructor's rules besides.
C29_LoadEffect ==
    loader.pc = "done" =>
        IF SkippedOrFailed(loader.file)
        THEN route_rules = loader.given /\ loader.outcome # "loaded"
        ELSE /\ loader.outcome = "loaded"
             /\ Len(route_rules) = Len(loader.file.records)
             /\ \A i \in DOMAIN route_rules :
                   route_rules[i] = WebhookRouteRule(loader.file.records[i])

\* A handler constructed with a catch-all rule loaded a file of two
\* different rules: the table is those two, in file order, without the
\* catch-all.
C29_Witness ==
    /\ loader.pc = "done" /\ loader.outcome = "loaded"
    /\ loader.given # <<>>
    /\ Len(loader.file.records) = 2
    /\ loader.file.records[1].event_pattern # loader.file.records[2].event_pattern
    /\ Len(route_rules) = 2
    /\ route_rules[1].event_pattern = loader.file.records[1].event_pattern
    /\ \A i \in DOMAIN route_rules : route_rules[i] # loader.given[1]

\* ------------------------------------------ properties of the engine's run

\* C30: no exception of the message stream or of message processing leaves
\* run; the result it returns has a terminal status (SUCCESS, ERROR or
\* MAX_TURNS_REACHED), never PENDING or RUNNING; an exception gives ERROR
\* even after a result message set another status; a stream that ends
\* without a result message and without an exception gives SUCCESS.
C30_TerminalStatus ==
    /\ engine.pc = "raised" => engine.error_type = "ImportError"
    /\ engine.pc = "returned" =>
          /\ engine.status \in {"success", "error", "max_turns_reached"}
          /\ engine.error_type # "none" => engine.status = "error"
          /\ (engine.error_type = "none" /\ ~Has(engine.seen, "result"))
                => engine.status = "success"

\* A result message had set SUCCESS, a later message could not be
\* processed, and run returned ERROR.
C30_Witness ==
    /\ engine.pc = "returned"
    /\ engine.seen = <<"assistant", "result", "user">>
    /\ engine.error_type = "processing"
    /\ engine.status = "error"

====
